---- MODULE Spec2Model ----
(***************************************************************************)
(* Verification model of the OBD toolkit analysis engine                   *)
(* (src/src/obd_toolkit/analysis) and of the session model it reads        *)
(* (src/src/obd_toolkit/models).                                           *)
(*                                                                         *)
(* Numbers.  PID values are modelled as integers.  Every statistic is      *)
(* computed exactly, by cross-multiplication, so that no fraction and no   *)
(* square root is ever rounded:                                            *)
(*   mean(xs) > c      is  Sum(xs) > c * Len(xs)                           *)
(*   stdev(xs) > c     is  VarN(xs) > c*c * n * (n-1),                     *)
(*                     VarN(xs) = n*Sum(x^2) - Sum(x)^2                    *)
(*   a Pearson coefficient r is the triple (sgn, p, q), r = sgn*sqrt(p/q), *)
(*   p/q in lowest terms.                                                  *)
(* Findings keep title, subject (the PID or system interpolated into the   *)
(* title), severity, category, confidence (in percent), related PIDs and   *)
(* related DTCs; free-text descriptions and recommendations are omitted.   *)
(***************************************************************************)
EXTENDS Integers, Sequences, FiniteSets, TLC

VARIABLES session, res, corr_locals, hrd, probe, collector, manager, slogger

vars == <<session, res, corr_locals, hrd, probe, collector, manager, slogger>>

\* The variables of the analysis engine
analysis == <<session, res, corr_locals, hrd, probe>>

\* ------------------------------------------------------------------------
\* Arithmetic helpers
\* ------------------------------------------------------------------------

Abs(x) == IF x < 0 THEN -x ELSE x

RECURSIVE GCD(_, _)
GCD(a, b) == IF b = 0 THEN a ELSE GCD(b, a % b)

RECURSIVE SumTo(_, _)
SumTo(s, k) == IF k = 0 THEN 0 ELSE s[k] + SumTo(s, k - 1)

Sum(s) == SumTo(s, Len(s))

SumSq(s) == Sum([i \in 1..Len(s) |-> s[i] * s[i]])

RECURSIVE MaxOf(_)
MaxOf(s) == IF Len(s) = 1 THEN s[1]
            ELSE LET m == MaxOf(Tail(s)) IN IF s[1] >= m THEN s[1] ELSE m

RECURSIVE MinOf(_)
MinOf(s) == IF Len(s) = 1 THEN s[1]
            ELSE LET m == MinOf(Tail(s)) IN IF s[1] <= m THEN s[1] ELSE m

Min2(a, b) == IF a <= b THEN a ELSE b

\* n^2 times the population variance of xs; n*(n-1) times the sample variance.
\* The variance does not change when every value is shifted by xs[1]; the
\* shift keeps the squares small.
VarN(xs) ==
    LET ys == [i \in 1..Len(xs) |-> xs[i] - xs[1]]
    IN  Len(xs) * SumSq(ys) - Sum(ys) * Sum(ys)

\* A partial operation reached at a source line, with whether its
\* precondition holds there (statistics.mean of a non-empty list,
\* statistics.stdev of two or more values, a non-zero divisor, a valid index)
Call(site, ok) == [site |-> site, ok |-> ok]

When(cond, calls) == IF cond THEN calls ELSE <<>>

AllOk(calls) == \A k \in 1..Len(calls) : calls[k].ok

Count(s, P(_)) == Len(SelectSeq(s, P))

RECURSIVE Repeat(_, _)
Repeat(x, n) == IF n <= 0 THEN <<>> ELSE <<x>> \o Repeat(x, n - 1)

RECURSIVE Concat(_)
Concat(ss) == IF ss = <<>> THEN <<>> ELSE Head(ss) \o Concat(Tail(ss))

\* ------------------------------------------------------------------------
\* Session model (models/session.py, models/dtc.py)
\* ------------------------------------------------------------------------

\* PIDSample.values is an insertion-ordered dict: a sequence of <<pid, value>>
\* pairs with pairwise distinct pids.
Has(sample, pid) == \E k \in 1..Len(sample) : sample[k][1] = pid

Get(sample, pid) == sample[CHOOSE k \in 1..Len(sample) : sample[k][1] = pid][2]

Keys(sample) == {sample[k][1] : k \in 1..Len(sample)}

\* [s.values[pid] for s in samples if pid in s.values]
Series(samples, pid) ==
    LET present == SelectSeq(samples, LAMBDA sample : Has(sample, pid))
    IN  [i \in 1..Len(present) |-> Get(present[i], pid)]

\* [s.values.get(pid, default) for s in samples]
SeriesDefault(samples, pid, default) ==
    [i \in 1..Len(samples) |->
        IF Has(samples[i], pid) THEN Get(samples[i], pid) ELSE default]

NoDTC == [present |-> FALSE, stored_codes |-> <<>>, pending_codes |-> <<>>,
          permanent_codes |-> <<>>]

DTCReadResult(stored, pending, permanent) ==
    [present |-> TRUE, stored_codes |-> stored, pending_codes |-> pending,
     permanent_codes |-> permanent]

\* A list of all codes that takes a code of the pending list only when the
\* stored list does not have it
all_codes_once(d) ==
    d.stored_codes
        \o SelectSeq(d.pending_codes,
                     LAMBDA p : \A k \in 1..Len(d.stored_codes) : d.stored_codes[k].code # p.code)
        \o d.permanent_codes

all_codes(d) == d.stored_codes \o d.pending_codes \o d.permanent_codes

total_codes(d) == Len(d.stored_codes) + Len(d.pending_codes) + Len(d.permanent_codes)

DiagnosticSession(samples, dtc) ==
    [pid_samples |-> samples, dtc_result |-> dtc, analysis_results |-> <<>>]

\* ------------------------------------------------------------------------
\* Result model and the shared helpers of BaseAnalyzer (analysis/base.py)
\* ------------------------------------------------------------------------

\* A metric value: the number num/den, its square root when root holds,
\* times the mpg factor 0.621371 * 7.718 when k = 1.
Number(n, d) == [kind |-> "number", num |-> n, den |-> d, root |-> FALSE, k |-> 0]

\* sqrt(n/d), e.g. a standard deviation
RootNumber(n, d) == [kind |-> "number", num |-> n, den |-> d, root |-> TRUE, k |-> 0]

\* A metric value that is a dict
Mapping(m) == [kind |-> "mapping", map |-> m]

Metric(name, value) == [name |-> name, value |-> value]

create_finding(title, subject, severity, category, confidence, pids, dtcs) ==
    [title |-> title, subject |-> subject, severity |-> severity,
     category |-> category, confidence |-> confidence,
     related_pids |-> pids, related_dtcs |-> dtcs]

Summary(text, n) == [text |-> text, n |-> n]

NoResult == [status |-> "none", analyzer_name |-> "", findings |-> <<>>,
             summary |-> Summary("", 0), metrics |-> <<>>]

Raised(name, error) == [status |-> "raised", analyzer_name |-> name,
                        findings |-> <<>>, summary |-> Summary(error, 0),
                        metrics |-> <<>>]

\* AnalysisResult declares metrics: Dict[str, float]; the model constructor
\* validates the fields and raises ValidationError for a value that is not a
\* number.
AnalysisResult(name, findings, summary, metrics) ==
    IF \A k \in 1..Len(metrics) : metrics[k].value.kind = "number"
    THEN [status |-> "returned", analyzer_name |-> name, findings |-> findings,
          summary |-> summary, metrics |-> metrics]
    ELSE Raised(name, "ValidationError")

\* A create_result that lists the findings by severity instead of in the
\* order of detection
create_result_by_severity(name, findings, summary, metrics) ==
    AnalysisResult(name,
        SelectSeq(findings, LAMBDA f : f.severity = "critical")
            \o SelectSeq(findings, LAMBDA f : f.severity = "warning")
            \o SelectSeq(findings, LAMBDA f : f.severity = "info"),
        summary, metrics)

create_result(name, findings, summary, metrics) ==
    AnalysisResult(name, findings, summary, metrics)

SeverityCount(findings, sevs) ==
    Count(findings, LAMBDA f : f.severity \in sevs)

\* ------------------------------------------------------------------------
\* Correlator (analysis/correlator.py)
\* ------------------------------------------------------------------------

Correlator_name == "Statistical Correlation Analysis"

Correlator_get_required_pids == <<"RPM", "SPEED", "ENGINE_LOAD", "THROTTLE_POS", "MAF", "COOLANT_TEMP">>

\* Minimum number of samples, and of values per retained series
CORR_MIN_SAMPLES == 10

\* Minimum series length of the outlier and trend stages
CORR_MIN_TREND == 20

\* The dict pid -> list built by the loop
\*   for sample in session.pid_samples:
\*       for pid, value in sample.values.items(): series[pid].append(value)
\* is insertion-ordered: a sequence of [pid, vals] records, the pids in
\* order of first appearance over the samples, each with its values in
\* sample order.
CollectValues(samples) ==
    LET items  == Concat(samples)
        firsts == SelectSeq([k \in 1..Len(items) |-> k],
                            LAMBDA k : \A j \in 1..(k - 1) : items[j][1] # items[k][1])
    IN  [i \in 1..Len(firsts) |->
            [pid |-> items[firsts[i]][1], vals |-> Series(samples, items[firsts[i]][1])]]

\* An _extract_series that keeps a series only above the minimum length
Correlator_extract_series_above(s) ==
    SelectSeq(CollectValues(s.pid_samples), LAMBDA e : Len(e.vals) > CORR_MIN_SAMPLES)

Correlator_extract_series(s) ==
    SelectSeq(CollectValues(s.pid_samples), LAMBDA e : Len(e.vals) >= CORR_MIN_SAMPLES)

SeriesKeys(series) == [k \in 1..Len(series) |-> series[k].pid]

\* A coefficient is the real number sgn * sqrt(p / q), p/q in lowest terms,
\* together with err, the direction of the floating-point rounding error of
\* the value Python computed for it: -1 when the float lies below the real
\* number, 0 when it is the nearest float, 1 when it lies above.
Errs == {-1, 0, 1}

NoValue == [kind |-> "None", sgn |-> 0, p |-> 0, q |-> 1, err |-> 0]

\* numerator / sqrt(denom_x * denom_y) for the n-scaled sums num, dx2, dy2
\* (dx2, dy2 > 0)
Coefficient(num, dx2, dy2, err) ==
    LET a  == Abs(num)
        g1 == GCD(a, dx2)
        g2 == GCD(a, dy2)
        a1 == a \div g1
        b1 == dx2 \div g1
        a2 == a \div g2
        b2 == dy2 \div g2
        g3 == GCD(a1, b2)
        g4 == GCD(a2, b1)
    IN  IF num = 0 THEN [kind |-> "r", sgn |-> 0, p |-> 0, q |-> 1, err |-> err]
        ELSE [kind |-> "r", sgn |-> IF num < 0 THEN -1 ELSE 1,
              p |-> (a1 \div g3) * (a2 \div g4),
              q |-> (b1 \div g4) * (b2 \div g3),
              err |-> err]

\* The real number of r is below a/b  (b > 0)
RealLess(r, a, b) ==
    IF a >= 0
    THEN \/ r.sgn < 0
         \/ r.sgn = 0 /\ a > 0
         \/ r.sgn > 0 /\ r.p * b * b < a * a * r.q
    ELSE r.sgn < 0 /\ r.p * b * b > a * a * r.q

\* The real number of r is a/b  (b > 0)
RealEq(r, a, b) ==
    /\ r.p * b * b = a * a * r.q
    /\ (a > 0 => r.sgn > 0) /\ (a < 0 => r.sgn < 0)

\* The float comparison r < a/b: decided by the real numbers when they
\* differ (the rounding error is far smaller than any gap between a
\* coefficient of a model series and a threshold), by the rounding
\* direction when they are equal.
CoefLess(r, a, b) == RealLess(r, a, b) \/ (RealEq(r, a, b) /\ r.err < 0)

\* -1 <= r <= 1 for the float value
InUnitInterval(r) ==
    /\ r.p <= r.q
    /\ ~(r.p = r.q /\ r.sgn > 0 /\ r.err > 0)
    /\ ~(r.p = r.q /\ r.sgn < 0 /\ r.err < 0)

\* Deviations are scaled by n: n*(x[i] - mean_x) = n*x[i] - Sum(x); the
\* factor n^2 cancels between numerator and denom_x * denom_y.
Correlator_pearson_correlation(x, y, err) ==
    LET n == Len(x) IN
    IF n # Len(y) \/ n < 2 THEN NoValue
    ELSE LET sx == Sum(x)
             sy == Sum(y)
             numerator == Sum([i \in 1..n |-> (n * x[i] - sx) * (n * y[i] - sy)])
             denom_x2  == Sum([i \in 1..n |-> (n * x[i] - sx) * (n * x[i] - sx)])
             denom_y2  == Sum([i \in 1..n |-> (n * y[i] - sy) * (n * y[i] - sy)])
         IN  IF denom_x2 = 0 \/ denom_y2 = 0 THEN NoValue
             ELSE Coefficient(numerator, denom_x2, denom_y2, err)

\* rounding gives the rounding direction of the coefficients whose
\* direction can change a comparison; the direction of any other
\* coefficient is not tracked (err = 0).
NoRounding == [key \in {} |-> 0]

ErrOf(rounding, key) == IF key \in DOMAIN rounding THEN rounding[key] ELSE 0

\* correlations is an insertion-ordered dict (pid1, pid2) -> float: a
\* sequence of [key, corr] records.
CorrelationOfPair(series, i, j, rounding) ==
    LET values1 == series[i].vals
        values2 == series[j].vals
        min_len == Min2(Len(values1), Len(values2))
        key     == <<series[i].pid, series[j].pid>>
        corr    == Correlator_pearson_correlation(SubSeq(values1, 1, min_len), SubSeq(values2, 1, min_len),
                                                  ErrOf(rounding, key))
    IN  IF min_len < CORR_MIN_SAMPLES \/ corr.kind = "None" THEN <<>>
        ELSE <<[key |-> key, corr |-> corr]>>

RECURSIVE CorrelationsFrom(_, _, _, _)
CorrelationsFrom(series, i, j, rounding) ==
    IF i > Len(series) THEN <<>>
    ELSE IF j > Len(series) THEN CorrelationsFrom(series, i + 1, i + 2, rounding)
    ELSE CorrelationOfPair(series, i, j, rounding) \o CorrelationsFrom(series, i, j + 1, rounding)

Correlator_calculate_correlations(series, rounding) == CorrelationsFrom(series, 1, 2, rounding)

InMap(correlations, key) == \E k \in 1..Len(correlations) : correlations[k].key = key

Lookup(correlations, key) ==
    correlations[CHOOSE k \in 1..Len(correlations) : correlations[k].key = key].corr

\* (pid1, pid2, minimum correlation in tenths)
expected_positive == << <<"RPM", "MAF", 5>>, <<"THROTTLE_POS", "ENGINE_LOAD", 4>>, <<"SPEED", "RPM", 3>> >>

ExpectedFinding(correlations, e) ==
    LET key == IF InMap(correlations, <<e[1], e[2]>>) THEN <<e[1], e[2]>> ELSE <<e[2], e[1]>>
    IN  IF InMap(correlations, key) /\ CoefLess(Lookup(correlations, key), e[3], 10)
        THEN <<create_finding("Unexpected Low Correlation", <<e[1], e[2]>>,
                 IF CoefLess(Lookup(correlations, key), 0, 1) THEN "warning" ELSE "info",
                 "correlation", 60, <<e[1], e[2]>>, <<>>)>>
        ELSE <<>>

NegativeRpmSpeedFinding(correlations) ==
    LET key == IF InMap(correlations, <<"RPM", "SPEED">>) THEN <<"RPM", "SPEED">> ELSE <<"SPEED", "RPM">>
    IN  IF InMap(correlations, key) /\ CoefLess(Lookup(correlations, key), -3, 10)
        THEN <<create_finding("Negative RPM-Speed Correlation", <<>>, "info",
                 "correlation", 50, <<"RPM", "SPEED">>, <<>>)>>
        ELSE <<>>

Correlator_analyze_expected_correlations(correlations, series) ==
    Concat([k \in 1..Len(expected_positive) |-> ExpectedFinding(correlations, expected_positive[k])])
    \o NegativeRpmSpeedFinding(correlations)

\* The thresholds (in tenths) a coefficient stored under the key is compared
\* with by _analyze_expected_correlations
Thresholds(key) ==
    UNION {{0, expected_positive[k][3]} : k \in {k \in 1..Len(expected_positive) :
              {key[1], key[2]} = {expected_positive[k][1], expected_positive[k][2]}}}
    \cup (IF {key[1], key[2]} = {"RPM", "SPEED"} THEN {-3} ELSE {})

\* The keys of the map whose coefficient is, as a real number, equal to a
\* threshold it is compared with: the comparison then depends on the
\* rounding direction.
BoundaryKeys(series) ==
    {<<series[i].pid, series[j].pid>> : <<i, j>> \in
        {ij \in (1..Len(series)) \X (1..Len(series)) :
            /\ ij[1] < ij[2]
            /\ Thresholds(<<series[ij[1]].pid, series[ij[2]].pid>>) # {}
            /\ CorrelationOfPair(series, ij[1], ij[2], NoRounding) # <<>>
            /\ \E t \in Thresholds(<<series[ij[1]].pid, series[ij[2]].pid>>) :
                   RealEq(CorrelationOfPair(series, ij[1], ij[2], NoRounding)[1].corr, t, 10)}}

Roundings(series) == [BoundaryKeys(series) -> Errs]

\* x > a * b for a > 0, without forming the product
ExceedsProduct(x, a, b) == x \div a > b \/ (x \div a = b /\ x % a > 0)

\* |v - mean| > 3 * std, std the sample standard deviation of values:
\* (n*v - Sum)^2 * (n-1) > 9 * n * VarN
IsOutlier(v, n, total, var) ==
    LET d == n * v - total
    IN  ExceedsProduct(d * d * (n - 1), 9 * n, var)

\* |values[i] - values[i-1]| > 3 * std
IsSpike(values, i, var) ==
    LET n == Len(values)
        d == values[i] - values[i - 1]
    IN  d * d * n * (n - 1) > 9 * var

AnomalyFindings(e) ==
    LET values   == e.vals
        n        == Len(values)
        total    == Sum(values)
        var      == VarN(values)
        outliers == Cardinality({i \in 1..n : IsOutlier(values[i], n, total, var)})
        spikes   == Cardinality({i \in 2..n : IsSpike(values, i, var)})
    IN  IF n < CORR_MIN_TREND THEN <<>>
        ELSE IF var = 0 THEN <<>>
        ELSE (IF 20 * outliers > n
              THEN <<create_finding("Data Anomalies in", <<e.pid>>, "info", "anomaly", 50, <<e.pid>>, <<>>)>>
              ELSE <<>>)
          \o (IF spikes > 5
              THEN <<create_finding("Sudden Changes in", <<e.pid>>, "warning", "anomaly", 60, <<e.pid>>, <<>>)>>
              ELSE <<>>)

Correlator_detect_anomalies(series) ==
    Concat([k \in 1..Len(series) |-> AnomalyFindings(series[k])])

\* Least-squares slope against the 0-based index, scaled:
\*   numerator   = SlopeNum / (2n),  denominator = SlopeDen / 4,
\*   relative_slope = slope / y_mean * 100 = 200 * SlopeNum / (SlopeDen * Sum)
SlopeNum(values) ==
    LET n == Len(values)
        total == Sum(values)
    IN  Sum([k \in 1..n |-> (2 * (k - 1) - (n - 1)) * (n * values[k] - total)])

SlopeDen(values) ==
    LET n == Len(values)
    IN  Sum([k \in 1..n |-> (2 * (k - 1) - (n - 1)) * (2 * (k - 1) - (n - 1))])

TrendFindings(e) ==
    LET values == e.vals
        num    == SlopeNum(values)
        den    == SlopeDen(values)
        total  == Sum(values)
    IN  IF Len(values) < CORR_MIN_TREND THEN <<>>
        ELSE IF den = 0 THEN <<>>
        ELSE IF total # 0 /\ 200 * Abs(num) > den * Abs(total)
        THEN <<create_finding("Trending", <<e.pid, IF num > 0 THEN "increasing" ELSE "decreasing">>,
                 IF 100 * Abs(num) < den * Abs(total) THEN "info" ELSE "warning",
                 "trend", 50, <<e.pid>>, <<>>)>>
        ELSE <<>>

Correlator_analyze_trends(series) ==
    Concat([k \in 1..Len(series) |-> TrendFindings(series[k])])

\* The local variables of Correlator.analyze when it leaves the function:
\* which exit it took, the retained series, the correlation map, the
\* metrics dict, the findings list, and the stages that ran with the PIDs
\* each was given.
Correlator_locals(s, rounding) ==
    LET series       == Correlator_extract_series(s)
        correlations == Correlator_calculate_correlations(series, rounding)
    IN  IF Len(s.pid_samples) < CORR_MIN_SAMPLES
        THEN [exit |-> "insufficient_data", series |-> <<>>, correlations |-> <<>>, metrics |-> <<>>,
              findings |-> <<create_finding("Insufficient Data", <<>>, "info", "general", 100, <<>>, <<>>)>>,
              stages |-> <<>>]
        ELSE IF Len(series) < 2
        THEN [exit |-> "insufficient_pids", series |-> series, correlations |-> <<>>, metrics |-> <<>>,
              findings |-> <<create_finding("Insufficient PIDs", <<>>, "info", "general", 100, <<>>, <<>>)>>,
              stages |-> <<>>]
        ELSE [exit |-> "end", series |-> series, correlations |-> correlations,
              metrics |-> <<Metric("correlations", Mapping(correlations))>>,
              findings |-> Correlator_analyze_expected_correlations(correlations, series)
                           \o Correlator_detect_anomalies(series)
                           \o Correlator_analyze_trends(series),
              stages |-> << <<"correlations", SeriesKeys(series)>>,
                            <<"anomalies", SeriesKeys(series)>>,
                            <<"trends", SeriesKeys(series)>> >>]

PairCalls(series, i, j) ==
    LET min_len == Min2(Len(series[i].vals), Len(series[j].vals))
        x       == SubSeq(series[i].vals, 1, min_len)
        y       == SubSeq(series[j].vals, 1, min_len)
    IN  When(~(min_len < CORR_MIN_SAMPLES),
             When(~(min_len < 2), <<Call("correlator.py:119 mean", min_len >= 1)>>)
          \o When(VarN(x) # 0 /\ VarN(y) # 0, <<Call("correlator.py:129 division", ~(VarN(x) = 0 \/ VarN(y) = 0))>>))

SeriesCalls(e) ==
    LET n == Len(e.vals)
    IN  When(~(n < CORR_MIN_TREND),
             <<Call("correlator.py:184 mean", n >= 1), Call("correlator.py:185 stdev", n >= 2)>>
          \o When(SlopeDen(e.vals) # 0, <<Call("correlator.py:243 division", SlopeDen(e.vals) # 0)>>)
          \o When(SlopeDen(e.vals) # 0 /\ Sum(e.vals) # 0, <<Call("correlator.py:247 division", Sum(e.vals) # 0)>>))

Correlator_calls(series) ==
    Concat([i \in 1..Len(series) |-> Concat([j \in 1..Len(series) |-> When(i < j, PairCalls(series, i, j))])])
    \o Concat([k \in 1..Len(series) |-> SeriesCalls(series[k])])

\* The end of Correlator.analyze: what the call gives its caller
Correlator_outcome(l) ==
    LET anomaly_count == SeverityCount(l.findings, {"critical", "warning"})
    IN  IF l.exit = "end" /\ ~AllOk(Correlator_calls(l.series)) THEN Raised(Correlator_name, "StatisticsError")
        ELSE IF l.exit = "insufficient_data"
        THEN create_result(Correlator_name, l.findings, Summary("Insufficient data for correlation analysis", 0), <<>>)
        ELSE IF l.exit = "insufficient_pids"
        THEN create_result(Correlator_name, l.findings, Summary("Insufficient PID data for correlation", 0), <<>>)
        ELSE create_result(Correlator_name, l.findings,
                 IF anomaly_count > 0
                 THEN Summary("Found anomaly(s) in sensor data correlations.", anomaly_count)
                 ELSE Summary("Sensor data correlations appear normal.", 0),
                 l.metrics)

Correlator_analyze(s, rounding) == Correlator_outcome(Correlator_locals(s, rounding))

\* ------------------------------------------------------------------------
\* FaultDetector (analysis/faults.py)
\* ------------------------------------------------------------------------

FaultDetector_name == "Fault Detection"

FaultDetector_get_required_pids == <<"COOLANT_TEMP", "RPM", "ENGINE_LOAD", "O2_B1S1", "SHORT_FUEL_TRIM_1", "LONG_FUEL_TRIM_1">>

\* A trouble code string is a sequence of characters; a DTCInfo keeps the
\* code and its severity.
DTCInfo(code, severity) == [code |-> code, severity |-> severity]

systems == [c \in {"1", "2", "3", "4", "5", "6", "7", "8"} |->
              CASE c = "1" -> "Fuel and Air Metering"
                [] c = "2" -> "Fuel and Air Metering (Injector Circuit)"
                [] c = "3" -> "Ignition System or Misfire"
                [] c = "4" -> "Auxiliary Emissions Controls"
                [] c = "5" -> "Vehicle Speed Controls and Idle Control System"
                [] c = "6" -> "Computer Output Circuit"
                [] OTHER -> "Transmission"]

DTCInfo_system(dtc) ==
    IF Len(dtc.code) < 3 THEN "Unknown"
    ELSE IF dtc.code[3] \in DOMAIN systems THEN systems[dtc.code[3]]
    ELSE "Unknown System"

CodesOf(dtcs) == [k \in 1..Len(dtcs) |-> dtcs[k].code]

\* systems = {} ; systems[system].append(code): an insertion-ordered dict
\* system -> codes, as a sequence of [system, codes] records
GroupAdd(groups, dtc) ==
    IF \E k \in 1..Len(groups) : groups[k].system = DTCInfo_system(dtc)
    THEN [groups EXCEPT ![CHOOSE k \in 1..Len(groups) : groups[k].system = DTCInfo_system(dtc)].codes = Append(@, dtc)]
    ELSE Append(groups, [system |-> DTCInfo_system(dtc), codes |-> <<dtc>>])

RECURSIVE GroupBySystem(_, _)
GroupBySystem(groups, dtcs) ==
    IF dtcs = <<>> THEN groups
    ELSE GroupBySystem(GroupAdd(groups, Head(dtcs)), Tail(dtcs))

\* A recurring set that also takes the codes of the permanent list
RecurringWithPermanent(d) ==
    {d.stored_codes[k].code : k \in 1..Len(d.stored_codes)}
        \cap ({d.pending_codes[k].code : k \in 1..Len(d.pending_codes)}
                  \cup {d.permanent_codes[k].code : k \in 1..Len(d.permanent_codes)})

\* stored_codes & pending_codes, as a set of code strings
Recurring(d) ==
    {d.stored_codes[k].code : k \in 1..Len(d.stored_codes)}
        \cap {d.pending_codes[k].code : k \in 1..Len(d.pending_codes)}

\* list(recurring): Python does not fix the iteration order of a set of
\* strings, so every enumeration of the set is a possible list.
Orderings(S) ==
    {o \in [1..Cardinality(S) -> S] : \A i, j \in 1..Cardinality(S) : i # j => o[i] # o[j]}

MultipleCodesFinding(g) ==
    IF Len(g.codes) > 1
    THEN <<create_finding("Multiple Codes", <<g.system>>, "warning", "dtc", 80, <<>>, CodesOf(g.codes))>>
    ELSE <<>>

FaultDetector_analyze_dtcs(d, recurring_list) ==
    LET codes          == all_codes(d)
        critical_codes == SelectSeq(codes, LAMBDA c : c.severity = "critical")
        groups         == GroupBySystem(<<>>, codes)
    IN  IF codes = <<>> THEN <<>>
        ELSE (IF critical_codes # <<>>
              THEN <<create_finding("Critical DTCs Present", <<>>, "critical", "dtc", 100, <<>>, CodesOf(critical_codes))>>
              ELSE <<>>)
          \o Concat([k \in 1..Len(groups) |-> MultipleCodesFinding(groups[k])])
          \o (IF Recurring(d) # {}
              THEN <<create_finding("Recurring Faults", <<>>, "warning", "dtc", 90, <<>>, recurring_list)>>
              ELSE <<>>)

\* The model writes the readings of INTAKE_TEMP in hundredths of a degree
\* and those of every other parameter in whole units: the reading v of pid
\* is the number v / ValueScale(pid).
ValueScale(pid) == IF pid = "INTAKE_TEMP" THEN 100 ELSE 1

\* round(v / scale, 1): the nearest multiple of 0.1, counted in tenths.
\* The readings of the model are never halfway between two tenths.
Round1(v, scale) == (20 * v + scale) \div (2 * scale)

\* A check that asks every change of the series to be >= 0
NeverDecreasing(temps) ==
    \A i \in 2..Len(temps) : temps[i] - temps[i - 1] >= 0

\* temp_changes[-10:] all >= 0, for temps of more than 10 readings
LastTenNonDecreasing(temps) ==
    \A i \in (Len(temps) - 9)..Len(temps) : temps[i] - temps[i - 1] >= 0

\* A distinct-value count that does not round
StuckFindingUnrounded(e) ==
    IF Len(e.vals) > 20 /\ Cardinality({e.vals[i] : i \in 1..Len(e.vals)}) < 3
    THEN <<create_finding("Sensor May Be Stuck", <<e.pid>>, "warning", "sensor", 60, <<e.pid>>, <<>>)>>
    ELSE <<>>

StuckFinding(e) ==
    IF Len(e.vals) > 20 /\ Cardinality({Round1(e.vals[i], ValueScale(e.pid)) : i \in 1..Len(e.vals)}) < 3
    THEN <<create_finding("Sensor May Be Stuck", <<e.pid>>, "warning", "sensor", 60, <<e.pid>>, <<>>)>>
    ELSE <<>>

FaultDetector_analyze_sensor_anomalies(s) ==
    LET values == CollectValues(s.pid_samples)
        temps  == Series(s.pid_samples, "COOLANT_TEMP")
    IN  (IF Len(temps) > 10 /\ LastTenNonDecreasing(temps) /\ temps[Len(temps)] > 100
         THEN <<create_finding("Temperature Rising Continuously", <<>>, "critical", "cooling", 80, <<"COOLANT_TEMP">>, <<>>)>>
         ELSE <<>>)
     \o Concat([k \in 1..Len(values) |-> StuckFinding(values[k])])

P0171 == <<"P", "0", "1", "7", "1">>

P0174 == <<"P", "0", "1", "7", "4">>

P0172 == <<"P", "0", "1", "7", "2">>

P0175 == <<"P", "0", "1", "7", "5">>

P0133 == <<"P", "0", "1", "3", "3">>

P0134 == <<"P", "0", "1", "3", "4">>

\* Variant: ten readings are enough and the deviation is the population one
ErraticTrimOfPopulation(short_trim) ==
    LET n == Len(short_trim)
    IN  short_trim # <<>> /\ n >= 10 /\ VarN(short_trim) > 10 * 10 * n * n

\* short_trim and len(short_trim) > 10 and statistics.stdev(short_trim) > 10
ErraticTrim(short_trim) ==
    LET n == Len(short_trim)
    IN  short_trim # <<>> /\ n > 10 /\ VarN(short_trim) > 10 * 10 * n * (n - 1)

FaultDetector_analyze_fuel_system(s) ==
    LET short_trim == Series(s.pid_samples, "SHORT_FUEL_TRIM_1")
        long_trim  == Series(s.pid_samples, "LONG_FUEL_TRIM_1")
    IN  IF short_trim = <<>> /\ long_trim = <<>> THEN <<>>
        ELSE (IF long_trim # <<>> /\ Sum(long_trim) > 15 * Len(long_trim)
              THEN <<create_finding("System Running Lean", <<>>, "warning", "fuel", 80,
                       <<"LONG_FUEL_TRIM_1", "SHORT_FUEL_TRIM_1">>, <<P0171, P0174>>)>>
              ELSE IF long_trim # <<>> /\ Sum(long_trim) < (-15) * Len(long_trim)
              THEN <<create_finding("System Running Rich", <<>>, "warning", "fuel", 80,
                       <<"LONG_FUEL_TRIM_1", "SHORT_FUEL_TRIM_1">>, <<P0172, P0175>>)>>
              ELSE <<>>)
          \o (IF ErraticTrim(short_trim)
              THEN <<create_finding("Erratic Fuel Trim", <<>>, "info", "fuel", 60, <<"SHORT_FUEL_TRIM_1">>, <<>>)>>
              ELSE <<>>)

FaultDetector_fuel_system_calls(s) ==
    LET short_trim == Series(s.pid_samples, "SHORT_FUEL_TRIM_1")
        long_trim  == Series(s.pid_samples, "LONG_FUEL_TRIM_1")
    IN  When(short_trim # <<>> \/ long_trim # <<>>,
             When(long_trim # <<>>, <<Call("faults.py:198 mean", Len(long_trim) >= 1)>>)
          \o When(short_trim # <<>> /\ Len(short_trim) > 10, <<Call("faults.py:237 stdev", Len(short_trim) >= 2)>>))

\* std_o2 < 0.05 is 400 * VarN < n*(n-1); avg_o2 > 0.7 is 10 * Sum > 7 * n
FaultDetector_analyze_o2_sensors(s) ==
    LET o2_values == Series(s.pid_samples, "O2_B1S1")
        n         == Len(o2_values)
    IN  IF n < 20 THEN <<>>
        ELSE (IF 400 * VarN(o2_values) < n * (n - 1)
              THEN <<create_finding("O2 Sensor Not Switching", <<>>, "warning", "sensor", 70, <<"O2_B1S1">>, <<P0133, P0134>>)>>
              ELSE <<>>)
          \o (IF 10 * Sum(o2_values) > 7 * n
              THEN <<create_finding("O2 Sensor Indicates Rich", <<>>, "info", "fuel", 100, <<"O2_B1S1">>, <<>>)>>
              ELSE IF 10 * Sum(o2_values) < 3 * n
              THEN <<create_finding("O2 Sensor Indicates Lean", <<>>, "info", "fuel", 100, <<"O2_B1S1">>, <<>>)>>
              ELSE <<>>)

FaultDetector_o2_calls(s) ==
    LET n == Len(Series(s.pid_samples, "O2_B1S1"))
    IN  When(~(n < 20), <<Call("faults.py:268 mean", n >= 1), Call("faults.py:269 stdev", n >= 2)>>)

\* The symptom flags of _correlate_symptoms
rough_idle(s) ==
    LET rpm_values == SelectSeq(Series(s.pid_samples, "RPM"), LAMBDA r : r < 1000)
        n          == Len(rpm_values)
    IN  rpm_values # <<>> /\ n > 5 /\ VarN(rpm_values) > 50 * 50 * n * (n - 1)

\* Variant: the mean over the samples that carry LONG_FUEL_TRIM_1 only
lean_running_present(s) ==
    LET long_trim == Series(s.pid_samples, "LONG_FUEL_TRIM_1")
    IN  long_trim # <<>> /\ Sum(long_trim) > 10 * Len(long_trim)

lean_running(s) ==
    LET long_trim == SeriesDefault(s.pid_samples, "LONG_FUEL_TRIM_1", 0)
    IN  long_trim # <<>> /\ Sum(long_trim) > 10 * Len(long_trim)

\* Variant: rich only below -20
rich_running_below_twenty(s) ==
    LET long_trim == SeriesDefault(s.pid_samples, "LONG_FUEL_TRIM_1", 0)
    IN  long_trim # <<>> /\ Sum(long_trim) < (-20) * Len(long_trim)

rich_running(s) ==
    LET long_trim == SeriesDefault(s.pid_samples, "LONG_FUEL_TRIM_1", 0)
    IN  long_trim # <<>> /\ ~(Sum(long_trim) > 10 * Len(long_trim))
                         /\ Sum(long_trim) < (-10) * Len(long_trim)

overheating(s) ==
    LET coolant == SeriesDefault(s.pid_samples, "COOLANT_TEMP", 0)
    IN  coolant # <<>> /\ MaxOf(coolant) > 105

FaultDetector_correlate_symptoms(s) ==
    (IF rough_idle(s) /\ lean_running(s)
     THEN <<create_finding("Vacuum Leak Likely", <<>>, "warning", "diagnosis", 85, <<"RPM", "LONG_FUEL_TRIM_1">>, <<>>)>>
     ELSE <<>>)
    \o (IF rough_idle(s) /\ rich_running(s)
        THEN <<create_finding("Fuel Injector Issue Likely", <<>>, "warning", "diagnosis", 70, <<"RPM", "LONG_FUEL_TRIM_1">>, <<>>)>>
        ELSE <<>>)

FaultDetector_symptom_calls(s) ==
    LET rpm_values == SelectSeq(Series(s.pid_samples, "RPM"), LAMBDA r : r < 1000)
        n          == Len(s.pid_samples)
    IN  When(rpm_values # <<>> /\ Len(rpm_values) > 5, <<Call("faults.py:331 stdev", Len(rpm_values) >= 2)>>)
     \o When(n > 0, <<Call("faults.py:337 mean", n >= 1)>>)
     \o When(n > 0, <<Call("faults.py:345 max", n >= 1)>>)

FaultDetector_stage_findings(s, recurring_list) ==
    << IF s.dtc_result.present THEN FaultDetector_analyze_dtcs(s.dtc_result, recurring_list) ELSE <<>>,
       IF s.pid_samples # <<>> THEN FaultDetector_analyze_sensor_anomalies(s) ELSE <<>>,
       IF s.pid_samples # <<>> THEN FaultDetector_analyze_fuel_system(s) ELSE <<>>,
       IF s.pid_samples # <<>> THEN FaultDetector_analyze_o2_sensors(s) ELSE <<>>,
       IF s.pid_samples # <<>> THEN FaultDetector_correlate_symptoms(s) ELSE <<>> >>

FaultDetector_calls(s) ==
    When(s.pid_samples # <<>>,
         FaultDetector_fuel_system_calls(s) \o FaultDetector_o2_calls(s) \o FaultDetector_symptom_calls(s))

\* Variant: the warnings are looked at before the critical findings
FaultDetector_summary_warnings_first(findings) ==
    LET critical_count == SeverityCount(findings, {"critical"})
        warning_count  == SeverityCount(findings, {"warning"})
    IN  IF warning_count > 0
        THEN Summary("Found potential issue(s) that should be investigated.", warning_count)
        ELSE IF critical_count > 0
        THEN Summary("CRITICAL: critical issue(s) detected requiring immediate attention.", critical_count)
        ELSE Summary("No significant faults detected. Vehicle appears to be operating normally.", 0)

FaultDetector_summary(findings) ==
    LET critical_count == SeverityCount(findings, {"critical"})
        warning_count  == SeverityCount(findings, {"warning"})
    IN  IF critical_count > 0
        THEN Summary("CRITICAL: critical issue(s) detected requiring immediate attention.", critical_count)
        ELSE IF warning_count > 0
        THEN Summary("Found potential issue(s) that should be investigated.", warning_count)
        ELSE Summary("No significant faults detected. Vehicle appears to be operating normally.", 0)

FaultDetector_analyze(s, recurring_list) ==
    LET findings == Concat(FaultDetector_stage_findings(s, recurring_list))
        metrics  == IF s.dtc_result.present
                    THEN <<Metric("dtc_count", Number(total_codes(s.dtc_result), 1))>>
                    ELSE <<>>
    IN  IF ~AllOk(FaultDetector_calls(s)) THEN Raised(FaultDetector_name, "StatisticsError")
        ELSE create_result(FaultDetector_name, findings, FaultDetector_summary(findings), metrics)

\* ------------------------------------------------------------------------
\* PerformanceAnalyzer (analysis/performance.py)
\* ------------------------------------------------------------------------

PerformanceAnalyzer_name == "Performance Analysis"

PerformanceAnalyzer_get_required_pids == <<"RPM", "ENGINE_LOAD", "THROTTLE_POS", "COOLANT_TEMP">>

P0300 == <<"P", "0", "3", "0", "0">>

P0301 == <<"P", "0", "3", "0", "1">>

P0302 == <<"P", "0", "3", "0", "2">>

P0303 == <<"P", "0", "3", "0", "3">>

P0304 == <<"P", "0", "3", "0", "4">>

\* Variant: the changes with their sign
SignedChanges(v) == [i \in 1..(Len(v) - 1) |-> v[i + 1] - v[i]]

\* [abs(v[i] - v[i-1]) for i in range(1, len(v))]
AbsChanges(v) == [i \in 1..(Len(v) - 1) |-> Abs(v[i + 1] - v[i])]

PerformanceAnalyzer_analyze_rpm_stability(rpm_values) ==
    LET idle_samples == SelectSeq(rpm_values, LAMBDA r : r < 1200)
        n            == Len(idle_samples)
        large_drops  == SelectSeq(AbsChanges(rpm_values), LAMBDA c : c > 300)
    IN  IF Len(rpm_values) < 5 THEN <<>>
        ELSE (IF idle_samples # <<>> /\ n > 3 /\ VarN(idle_samples) > 100 * 100 * n * (n - 1)
              THEN <<create_finding("Rough Idle Detected", <<>>, "warning", "engine", 80, <<"RPM">>, <<>>)>>
              ELSE <<>>)
          \o (IF Len(large_drops) > 2
              THEN <<create_finding("RPM Fluctuations Detected", <<>>, "warning", "engine", 70, <<"RPM">>,
                       <<P0300, P0301, P0302, P0303, P0304>>)>>
              ELSE <<>>)

PerformanceAnalyzer_rpm_calls(rpm_values) ==
    LET idle_samples == SelectSeq(rpm_values, LAMBDA r : r < 1200)
    IN  When(~(Len(rpm_values) < 5),
             <<Call("performance.py:101 mean", Len(rpm_values) >= 1),
               Call("performance.py:102 stdev", Len(rpm_values) >= 2)>>
          \o When(Len(rpm_values) - 1 > 0, <<Call("performance.py:106 max", Len(rpm_values) - 1 >= 1)>>)
          \o When(idle_samples # <<>> /\ Len(idle_samples) > 3,
                  <<Call("performance.py:111 stdev", Len(idle_samples) >= 2)>>))

PerformanceAnalyzer_analyze_load_patterns(load_values) ==
    LET sudden_spikes == SelectSeq(AbsChanges(load_values), LAMBDA c : c > 30)
    IN  IF Len(load_values) < 5 THEN <<>>
        ELSE (IF Sum(load_values) > 40 * Len(load_values) /\ MaxOf(load_values) = MinOf(load_values)
              THEN <<create_finding("High Idle Load", <<>>, "info", "engine", 60, <<"ENGINE_LOAD">>, <<>>)>>
              ELSE <<>>)
          \o (IF Len(sudden_spikes) > 3
              THEN <<create_finding("Load Fluctuations", <<>>, "info", "engine", 50, <<"ENGINE_LOAD">>, <<>>)>>
              ELSE <<>>)

PerformanceAnalyzer_load_calls(load_values) ==
    When(~(Len(load_values) < 5),
         <<Call("performance.py:158 mean", Len(load_values) >= 1),
           Call("performance.py:159 max", Len(load_values) >= 1)>>)

\* range(1, len(throttle_values)) in 0-based indices idx is k = idx + 1 in
\* 2..Len; rpm_values[idx + 2] is rpm_values[k + 2] and rpm_values[idx] is
\* rpm_values[k] in 1-based indices; idx + 3 < len(rpm_values) is k + 2 < Len.
throttle_increases(throttle_values) ==
    {k \in 2..Len(throttle_values) : throttle_values[k] - throttle_values[k - 1] > 10}

slow_responses(throttle_values, rpm_values) ==
    Cardinality({k \in throttle_increases(throttle_values) :
                    k + 2 < Len(rpm_values) /\ rpm_values[k + 2] - rpm_values[k] < 100})

PerformanceAnalyzer_analyze_throttle_response(throttle_values, rpm_values) ==
    IF Len(throttle_values) < 10 \/ Len(rpm_values) < 10 THEN <<>>
    ELSE IF slow_responses(throttle_values, rpm_values) > 2
    THEN <<create_finding("Throttle Response Lag", <<>>, "warning", "engine", 60, <<"THROTTLE_POS", "RPM">>, <<>>)>>
    ELSE <<>>

PerformanceAnalyzer_throttle_calls(throttle_values, rpm_values) ==
    When(~(Len(throttle_values) < 10 \/ Len(rpm_values) < 10),
         Concat([k \in 1..Len(throttle_values) |->
             When(k \in throttle_increases(throttle_values) /\ k + 2 < Len(rpm_values),
                  <<Call("performance.py:219 index", k + 2 <= Len(rpm_values))>>)]))

\* Variant: the warm-coolant check is not skipped above 110
PerformanceAnalyzer_analyze_coolant_temp_twice(coolant_values) ==
    IF coolant_values = <<>> THEN <<>>
    ELSE (IF MaxOf(coolant_values) > 110
          THEN <<create_finding("Elevated Coolant Temperature", <<>>, "critical", "cooling", 90, <<"COOLANT_TEMP">>, <<>>)>>
          ELSE <<>>)
      \o (IF MaxOf(coolant_values) > 100
          THEN <<create_finding("Warm Coolant Temperature", <<>>, "warning", "cooling", 70, <<"COOLANT_TEMP">>, <<>>)>>
          ELSE <<>>)
      \o (IF MaxOf(coolant_values) < 75 /\ Len(coolant_values) > 20
          THEN <<create_finding("Engine Not Reaching Temperature", <<>>, "warning", "cooling", 70, <<"COOLANT_TEMP">>, <<>>)>>
          ELSE <<>>)

PerformanceAnalyzer_analyze_coolant_temp(coolant_values) ==
    IF coolant_values = <<>> THEN <<>>
    ELSE (IF MaxOf(coolant_values) > 110
          THEN <<create_finding("Elevated Coolant Temperature", <<>>, "critical", "cooling", 90, <<"COOLANT_TEMP">>, <<>>)>>
          ELSE IF MaxOf(coolant_values) > 100
          THEN <<create_finding("Warm Coolant Temperature", <<>>, "warning", "cooling", 70, <<"COOLANT_TEMP">>, <<>>)>>
          ELSE <<>>)
      \o (IF MaxOf(coolant_values) < 75 /\ Len(coolant_values) > 20
          THEN <<create_finding("Engine Not Reaching Temperature", <<>>, "warning", "cooling", 70, <<"COOLANT_TEMP">>, <<>>)>>
          ELSE <<>>)

StartsWith(code, prefix) == Len(code) >= Len(prefix) /\ SubSeq(code, 1, Len(prefix)) = prefix

\* Variant: only the stored codes are looked at
PerformanceAnalyzer_analyze_stored_dtcs(d) ==
    LET misfire_codes == SelectSeq(d.stored_codes, LAMBDA c : StartsWith(c.code, <<"P", "0", "3", "0">>))
    IN  IF misfire_codes # <<>>
        THEN <<create_finding("Misfire Codes Present", <<>>, "critical", "engine", 100, <<>>, CodesOf(misfire_codes))>>
        ELSE <<>>

PerformanceAnalyzer_analyze_performance_dtcs(d) ==
    LET misfire_codes == SelectSeq(all_codes(d), LAMBDA c : StartsWith(c.code, <<"P", "0", "3", "0">>))
    IN  IF misfire_codes # <<>>
        THEN <<create_finding("Misfire Codes Present", <<>>, "critical", "engine", 100, <<>>, CodesOf(misfire_codes))>>
        ELSE <<>>

PerformanceAnalyzer_stage_findings(s) ==
    LET rpm_values      == Series(s.pid_samples, "RPM")
        load_values     == Series(s.pid_samples, "ENGINE_LOAD")
        throttle_values == Series(s.pid_samples, "THROTTLE_POS")
        coolant_values  == Series(s.pid_samples, "COOLANT_TEMP")
    IN  << IF rpm_values # <<>> THEN PerformanceAnalyzer_analyze_rpm_stability(rpm_values) ELSE <<>>,
           IF load_values # <<>> THEN PerformanceAnalyzer_analyze_load_patterns(load_values) ELSE <<>>,
           IF throttle_values # <<>> /\ rpm_values # <<>>
               THEN PerformanceAnalyzer_analyze_throttle_response(throttle_values, rpm_values) ELSE <<>>,
           IF coolant_values # <<>> THEN PerformanceAnalyzer_analyze_coolant_temp(coolant_values) ELSE <<>>,
           IF s.dtc_result.present THEN PerformanceAnalyzer_analyze_performance_dtcs(s.dtc_result) ELSE <<>> >>

PerformanceAnalyzer_calls(s) ==
    LET rpm_values      == Series(s.pid_samples, "RPM")
        load_values     == Series(s.pid_samples, "ENGINE_LOAD")
        throttle_values == Series(s.pid_samples, "THROTTLE_POS")
        coolant_values  == Series(s.pid_samples, "COOLANT_TEMP")
    IN  When(rpm_values # <<>>,
             PerformanceAnalyzer_rpm_calls(rpm_values)
             \o <<Call("performance.py:58 mean", Len(rpm_values) >= 1)>>
             \o When(Len(rpm_values) > 1, <<Call("performance.py:60 stdev", Len(rpm_values) >= 2)>>))
     \o When(load_values # <<>>,
             PerformanceAnalyzer_load_calls(load_values)
             \o <<Call("performance.py:65 mean", Len(load_values) >= 1)>>)
     \o When(throttle_values # <<>> /\ rpm_values # <<>>,
             PerformanceAnalyzer_throttle_calls(throttle_values, rpm_values))
     \o When(coolant_values # <<>>,
             <<Call("performance.py:249 max", Len(coolant_values) >= 1),
               Call("performance.py:75 mean", Len(coolant_values) >= 1)>>)

PerformanceAnalyzer_metrics(s) ==
    LET rpm_values     == Series(s.pid_samples, "RPM")
        load_values    == Series(s.pid_samples, "ENGINE_LOAD")
        coolant_values == Series(s.pid_samples, "COOLANT_TEMP")
        n              == Len(rpm_values)
    IN  When(rpm_values # <<>>,
             <<Metric("rpm_avg", Number(Sum(rpm_values), n)),
               Metric("rpm_max", Number(MaxOf(rpm_values), 1)),
               Metric("rpm_std", IF n > 1 THEN RootNumber(VarN(rpm_values), n * (n - 1)) ELSE Number(0, 1))>>)
     \o When(load_values # <<>>,
             <<Metric("load_avg", Number(Sum(load_values), Len(load_values))),
               Metric("load_max", Number(MaxOf(load_values), 1))>>)
     \o When(coolant_values # <<>>,
             <<Metric("coolant_avg", Number(Sum(coolant_values), Len(coolant_values))),
               Metric("coolant_max", Number(MaxOf(coolant_values), 1))>>)

PerformanceAnalyzer_summary(findings) ==
    LET issue_count == SeverityCount(findings, {"critical", "warning"})
    IN  IF issue_count = 0
        THEN Summary("No performance issues detected. Engine appears to be running normally.", 0)
        ELSE IF issue_count = 1
        THEN Summary("1 potential performance issue detected. See findings for details.", 1)
        ELSE Summary("potential performance issues detected. Review findings carefully.", issue_count)

PerformanceAnalyzer_analyze(s) ==
    LET findings == Concat(PerformanceAnalyzer_stage_findings(s))
    IN  IF s.pid_samples = <<>>
        THEN create_result(PerformanceAnalyzer_name,
                 <<create_finding("No Data", <<>>, "info", "general", 100, <<>>, <<>>)>>,
                 Summary("Insufficient data for performance analysis", 0), <<>>)
        ELSE IF ~AllOk(PerformanceAnalyzer_calls(s)) THEN Raised(PerformanceAnalyzer_name, "StatisticsError")
        ELSE create_result(PerformanceAnalyzer_name, findings, PerformanceAnalyzer_summary(findings),
                 PerformanceAnalyzer_metrics(s))

\* ------------------------------------------------------------------------
\* FuelEconomyAnalyzer (analysis/fuel.py)
\* ------------------------------------------------------------------------

FuelEconomyAnalyzer_name == "Fuel Economy Analysis"

FuelEconomyAnalyzer_get_required_pids == <<"MAF", "SPEED", "RPM", "ENGINE_LOAD">>

\* The decimal constant c = limbs[1] + limbs[2]/1000 + limbs[3]/1000^2 + ...
\* times the natural number a: its integer part, and whether a fraction is left.
RECURSIVE LimbMul(_, _, _, _, _)
LimbMul(limbs, a, k, carry, frac) ==
    LET t == a * limbs[k] + carry
    IN  IF k = 1 THEN [int |-> t, frac |-> frac]
        ELSE LimbMul(limbs, a, k - 1, t \div 1000, frac \/ t % 1000 # 0)

\* the sign of c * a - b, for naturals a and b
LimbCmp(limbs, a, b) ==
    LET m == LimbMul(limbs, a, Len(limbs), 0, FALSE)
    IN  IF m.int < b THEN -1
        ELSE IF m.int > b \/ m.frac THEN 1
        ELSE 0

\* 0.621371 * 7.718 = 4.795741378, the factor of line 119
MPG_FACTOR == <<4, 795, 741, 378>>

\* 4.795741378^2 = 22.999135364661338884
MPG_FACTOR_SQ == <<22, 999, 135, 364, 661, 338, 884>>

LCM(a, b) == (a \div GCD(a, b)) * b

RECURSIVE LCMOf(_)
LCMOf(s) == IF s = <<>> THEN 1 ELSE LCM(Head(s), LCMOf(Tail(s)))

\* Variant: a speed of exactly 5 is skipped too
MpgOfAboveFive(maf_values, speed_values, i) ==
    LET maf   == maf_values[i]
        speed == speed_values[i]
    IN  IF speed <= 5 \/ 2 * maf < 1 THEN <<>>
        ELSE IF LimbCmp(MPG_FACTOR, speed, maf) = 1 /\ LimbCmp(MPG_FACTOR, speed, 100 * maf) = -1
        THEN <<[speed |-> speed, maf |-> maf]>>
        ELSE <<>>

\* A kept mpg value is the pair [speed, maf], standing for
\* speed * 0.621371 * 7.718 / maf.
MpgOf(maf_values, speed_values, i) ==
    LET maf   == maf_values[i]
        speed == speed_values[i]
    IN  IF speed < 5 \/ 2 * maf < 1 THEN <<>>
        ELSE IF LimbCmp(MPG_FACTOR, speed, maf) = 1 /\ LimbCmp(MPG_FACTOR, speed, 100 * maf) = -1
        THEN <<[speed |-> speed, maf |-> maf]>>
        ELSE <<>>

FuelEconomyAnalyzer_calculate_mpg_series(maf_values, speed_values) ==
    Concat([i \in 1..Min2(Len(maf_values), Len(speed_values)) |-> MpgOf(maf_values, speed_values, i)])

\* The kept mpg values over their common denominator: value i is
\* 4.795741378 * MpgNumerators[i] / MpgDenominator.
MpgDenominator(mpg_values) == LCMOf([i \in 1..Len(mpg_values) |-> mpg_values[i].maf])

MpgNumerators(mpg_values) ==
    [i \in 1..Len(mpg_values) |-> mpg_values[i].speed * (MpgDenominator(mpg_values) \div mpg_values[i].maf)]

\* mean(mpg_values) < c
MpgMeanBelow(mpg_values, c) ==
    LimbCmp(MPG_FACTOR, Sum(MpgNumerators(mpg_values)), c * Len(mpg_values) * MpgDenominator(mpg_values)) = -1

\* mean(mpg_values) > c
MpgMeanAbove(mpg_values, c) ==
    LimbCmp(MPG_FACTOR, Sum(MpgNumerators(mpg_values)), c * Len(mpg_values) * MpgDenominator(mpg_values)) = 1

\* stdev(mpg_values) > c, the sample standard deviation
MpgStdevAbove(mpg_values, c) ==
    LET n == Len(mpg_values)
        L == MpgDenominator(mpg_values)
    IN  LimbCmp(MPG_FACTOR_SQ, VarN(MpgNumerators(mpg_values)), c * c * L * L * n * (n - 1)) = 1

MpgNumber(n, d) == [kind |-> "number", num |-> n, den |-> d, root |-> FALSE, k |-> 1]

FuelEconomyAnalyzer_analyze_mpg_patterns(mpg_values, speed_values) ==
    IF Len(mpg_values) < 5 THEN <<>>
    ELSE (IF MpgMeanBelow(mpg_values, 15)
          THEN <<create_finding("Poor Fuel Economy", <<>>, "warning", "fuel", 70, <<"MAF", "SPEED">>, <<>>)>>
          ELSE <<>>)
      \o (IF Len(mpg_values) > 1 /\ MpgStdevAbove(mpg_values, 10)
          THEN <<create_finding("Inconsistent Fuel Economy", <<>>, "info", "fuel", 60, <<"MAF", "SPEED">>, <<>>)>>
          ELSE <<>>)

\* Variant: every MAF reading counts as an idle one
IdleMafOfAll(maf_values, rpm_values) == maf_values

\* [maf_values[i] for i in range(len(rpm_values)) if rpm_values[i] < 1000]
IdleMaf(maf_values, rpm_values) ==
    Concat([i \in 1..Len(rpm_values) |->
        IF i <= Len(maf_values) /\ rpm_values[i] < 1000 THEN <<maf_values[i]>> ELSE <<>>])

FuelEconomyAnalyzer_analyze_maf_patterns(maf_values, rpm_values) ==
    LET idle_maf == IdleMaf(maf_values, rpm_values)
    IN  IF Len(maf_values) < 5 THEN <<>>
        ELSE (IF MaxOf(maf_values) > 200
              THEN <<create_finding("High Airflow Detected", <<>>, "info", "fuel", 100, <<"MAF">>, <<>>)>>
              ELSE <<>>)
          \o (IF rpm_values # <<>> /\ Len(rpm_values) = Len(maf_values)
                 /\ idle_maf # <<>> /\ Sum(idle_maf) > 10 * Len(idle_maf)
              THEN <<create_finding("High Idle Airflow", <<>>, "warning", "fuel", 60, <<"MAF", "RPM">>, <<>>)>>
              ELSE <<>>)

\* idle_fuel_lph = avg_idle_maf * 3600 / (14.7 * 750) > 2.0
FuelEconomyAnalyzer_analyze_idle_fuel(maf_values, rpm_values) ==
    LET idle_maf == IdleMaf(maf_values, rpm_values)
    IN  IF Len(idle_maf) < 3 THEN <<>>
        ELSE IF Sum(idle_maf) * 3600 * 10 > 2 * 147 * 750 * Len(idle_maf)
        THEN <<create_finding("High Idle Fuel Consumption", <<>>, "info", "fuel", 50, <<"MAF", "RPM">>, <<>>)>>
        ELSE <<>>

\* The ratios speed/rpm*1000 kept by _analyze_driving_efficiency, as
\* [speed, rpm] pairs
Ratios(speed_values, rpm_values) ==
    Concat([i \in 1..Min2(Len(speed_values), Len(rpm_values)) |->
        IF rpm_values[i] > 500 /\ speed_values[i] > 20
        THEN <<[speed |-> speed_values[i], rpm |-> rpm_values[i]]>> ELSE <<>>])

\* mean(ratios) < 20:  1000 * Sum(speed/rpm) < 20 * len(ratios)
RatioMeanBelow20(ratios) ==
    LET L == LCMOf([i \in 1..Len(ratios) |-> ratios[i].rpm])
    IN  1000 * Sum([i \in 1..Len(ratios) |-> ratios[i].speed * (L \div ratios[i].rpm)]) < 20 * Len(ratios) * L

FuelEconomyAnalyzer_analyze_driving_efficiency(speed_values, rpm_values) ==
    LET ratios == Ratios(speed_values, rpm_values)
    IN  IF Len(speed_values) < 10 \/ Len(rpm_values) < 10 THEN <<>>
        ELSE IF ratios = <<>> THEN <<>>
        ELSE IF RatioMeanBelow20(ratios)
        THEN <<create_finding("High RPM Driving Pattern", <<>>, "info", "driving", 60, <<"SPEED", "RPM">>, <<>>)>>
        ELSE <<>>

\* len(aggressive_accels) > len(accelerations) * 0.2 ; idle_count > len(speed_values) * 0.3
FuelEconomyAnalyzer_analyze_acceleration(speed_values) ==
    LET n          == Len(speed_values)
        aggressive == Cardinality({i \in 2..n : speed_values[i] - speed_values[i - 1] > 10})
        idle_count == Cardinality({i \in 1..n : speed_values[i] < 5})
    IN  IF n < 10 THEN <<>>
        ELSE (IF 10 * aggressive > 2 * (n - 1)
              THEN <<create_finding("Aggressive Acceleration Pattern", <<>>, "info", "driving", 70, <<"SPEED">>, <<>>)>>
              ELSE <<>>)
          \o (IF 10 * idle_count > 3 * n
              THEN <<create_finding("Excessive Idling Detected", <<>>, "info", "driving", 80, <<"SPEED">>, <<>>)>>
              ELSE <<>>)

FuelEconomyAnalyzer_mpg_samples(s) ==
    LET maf_values   == Series(s.pid_samples, "MAF")
        speed_values == Series(s.pid_samples, "SPEED")
    IN  IF maf_values # <<>> /\ speed_values # <<>>
        THEN FuelEconomyAnalyzer_calculate_mpg_series(maf_values, speed_values)
        ELSE <<>>

FuelEconomyAnalyzer_stage_findings(s) ==
    LET maf_values   == Series(s.pid_samples, "MAF")
        speed_values == Series(s.pid_samples, "SPEED")
        rpm_values   == Series(s.pid_samples, "RPM")
        mpg_samples  == FuelEconomyAnalyzer_mpg_samples(s)
    IN  << IF mpg_samples # <<>> THEN FuelEconomyAnalyzer_analyze_mpg_patterns(mpg_samples, speed_values) ELSE <<>>,
           IF maf_values # <<>> THEN FuelEconomyAnalyzer_analyze_maf_patterns(maf_values, rpm_values) ELSE <<>>,
           IF maf_values # <<>> /\ rpm_values # <<>>
               THEN FuelEconomyAnalyzer_analyze_idle_fuel(maf_values, rpm_values) ELSE <<>>,
           IF speed_values # <<>> /\ rpm_values # <<>>
               THEN FuelEconomyAnalyzer_analyze_driving_efficiency(speed_values, rpm_values) ELSE <<>>,
           IF speed_values # <<>> THEN FuelEconomyAnalyzer_analyze_acceleration(speed_values) ELSE <<>> >>

FuelEconomyAnalyzer_calls(s) ==
    LET maf_values   == Series(s.pid_samples, "MAF")
        speed_values == Series(s.pid_samples, "SPEED")
        rpm_values   == Series(s.pid_samples, "RPM")
        mpg_samples  == FuelEconomyAnalyzer_mpg_samples(s)
        idle_maf     == IdleMaf(maf_values, rpm_values)
        ratios       == Ratios(speed_values, rpm_values)
    IN  When(maf_values # <<>> /\ speed_values # <<>>,
             Concat([i \in 1..Min2(Len(maf_values), Len(speed_values)) |->
                 When(~(speed_values[i] < 5 \/ 2 * maf_values[i] < 1),
                      <<Call("fuel.py:119 division", maf_values[i] # 0)>>)])
             \o When(mpg_samples # <<>>,
                     <<Call("fuel.py:60 mean", Len(mpg_samples) >= 1)>>
                     \o When(~(Len(mpg_samples) < 5),
                             <<Call("fuel.py:138 mean", Len(mpg_samples) >= 1)>>
                             \o When(Len(mpg_samples) > 1, <<Call("fuel.py:139 stdev", Len(mpg_samples) >= 2)>>))))
     \o When(maf_values # <<>>,
             <<Call("fuel.py:69 mean", Len(maf_values) >= 1)>>
             \o When(~(Len(maf_values) < 5),
                     <<Call("fuel.py:185 mean", Len(maf_values) >= 1)>>
                     \o When(rpm_values # <<>> /\ Len(rpm_values) = Len(maf_values),
                             <<Call("fuel.py:202 index", Len(rpm_values) <= Len(maf_values))>>
                             \o When(idle_maf # <<>>, <<Call("fuel.py:204 mean", Len(idle_maf) >= 1)>>))))
     \o When(maf_values # <<>> /\ rpm_values # <<>> /\ ~(Len(idle_maf) < 3),
             <<Call("fuel.py:239 mean", Len(idle_maf) >= 1)>>)
     \o When(speed_values # <<>> /\ rpm_values # <<>> /\ ~(Len(speed_values) < 10 \/ Len(rpm_values) < 10),
             Concat([i \in 1..Len(ratios) |-> <<Call("fuel.py:280 division", ratios[i].rpm # 0)>>])
             \o When(ratios # <<>>, <<Call("fuel.py:286 mean", Len(ratios) >= 1)>>))

\* max(mpg_samples) / min(mpg_samples): the extreme of speed/maf
RECURSIVE MpgExtreme(_, _)
MpgExtreme(mpg_values, sign) ==
    IF Len(mpg_values) = 1 THEN mpg_values[1]
    ELSE LET m == MpgExtreme(Tail(mpg_values), sign)
             h == Head(mpg_values)
         IN  IF sign * (h.speed * m.maf - m.speed * h.maf) >= 0 THEN h ELSE m

FuelEconomyAnalyzer_metrics(s) ==
    LET maf_values  == Series(s.pid_samples, "MAF")
        mpg_samples == FuelEconomyAnalyzer_mpg_samples(s)
    IN  When(mpg_samples # <<>>,
             <<Metric("average_mpg", MpgNumber(Sum(MpgNumerators(mpg_samples)), Len(mpg_samples) * MpgDenominator(mpg_samples))),
               Metric("max_mpg", MpgNumber(MpgExtreme(mpg_samples, 1).speed, MpgExtreme(mpg_samples, 1).maf)),
               Metric("min_mpg", MpgNumber(MpgExtreme(mpg_samples, -1).speed, MpgExtreme(mpg_samples, -1).maf))>>)
     \o When(maf_values # <<>>, <<Metric("avg_maf", Number(Sum(maf_values), Len(maf_values)))>>)

FuelEconomyAnalyzer_summary(mpg_samples) ==
    IF mpg_samples # <<>>
    THEN (IF MpgMeanBelow(mpg_samples, 15)
          THEN Summary("Average fuel economy: MPG. Below average efficiency - see recommendations.", 0)
          ELSE IF MpgMeanAbove(mpg_samples, 30)
          THEN Summary("Average fuel economy: MPG. Good fuel efficiency.", 0)
          ELSE Summary("Average fuel economy: MPG. Moderate fuel efficiency.", 0))
    ELSE Summary("Fuel economy could not be calculated. Ensure MAF and SPEED data is available.", 0)

FuelEconomyAnalyzer_analyze(s) ==
    LET findings == Concat(FuelEconomyAnalyzer_stage_findings(s))
    IN  IF s.pid_samples = <<>>
        THEN create_result(FuelEconomyAnalyzer_name,
                 <<create_finding("No Data", <<>>, "info", "general", 100, <<>>, <<>>)>>,
                 Summary("Insufficient data for fuel analysis", 0), <<>>)
        ELSE IF ~AllOk(FuelEconomyAnalyzer_calls(s)) THEN Raised(FuelEconomyAnalyzer_name, "StatisticsError")
        ELSE create_result(FuelEconomyAnalyzer_name, findings,
                 FuelEconomyAnalyzer_summary(FuelEconomyAnalyzer_mpg_samples(s)),
                 FuelEconomyAnalyzer_metrics(s))

\* ------------------------------------------------------------------------
\* BaseAnalyzer.has_required_data (analysis/base.py)
\* ------------------------------------------------------------------------

Analyzers == {"Correlator", "FaultDetector", "FuelEconomyAnalyzer", "PerformanceAnalyzer"}

get_required_pids(a) ==
    CASE a = "Correlator" -> Correlator_get_required_pids
      [] a = "FaultDetector" -> FaultDetector_get_required_pids
      [] a = "FuelEconomyAnalyzer" -> FuelEconomyAnalyzer_get_required_pids
      [] OTHER -> PerformanceAnalyzer_get_required_pids

ToSet(seq) == {seq[k] : k \in 1..Len(seq)}

\* A has_required_data that asks for one sample with every required PID
has_all_required_data(a, s) ==
    \E i \in 1..Len(s.pid_samples) : ToSet(get_required_pids(a)) \subseteq Keys(s.pid_samples[i])

has_required_data(a, s) ==
    IF s.pid_samples = <<>> THEN FALSE
    ELSE \E i \in 1..Len(s.pid_samples) :
             ToSet(get_required_pids(a)) \cap Keys(s.pid_samples[i]) # {}

\* DiagnosticSession.add_analysis: analysis_results.append(result)
add_analysis(s, result) == [s EXCEPT !.analysis_results = Append(@, result)]

\* An analyze that stores its result on the session
analyze_stores_result(s, result) == add_analysis(s, result)

\* What a call of analyze(session) does to the session object it is handed:
\* no analyzer assigns a field of the session or calls add_sample or
\* add_analysis, so the session after the call is the session before it.
analyze_session_effect(s, result) == s

\* ------------------------------------------------------------------------
\* Sessions
\* ------------------------------------------------------------------------

\* How far a run of samples goes beyond a length threshold of the analyzers
Extra == 1

HotIdle ==
    << <<"RPM", 700>>, <<"COOLANT_TEMP", 101>>, <<"ENGINE_LOAD", 50>>, <<"THROTTLE_POS", 10>>,
       <<"MAF", 12>>, <<"SPEED", 0>>, <<"LONG_FUEL_TRIM_1", 18>>, <<"SHORT_FUEL_TRIM_1", -15>>,
       <<"O2_B1S1", 1>> >>

HotterIdle ==
    << <<"RPM", 950>>, <<"COOLANT_TEMP", 111>>, <<"ENGINE_LOAD", 50>>, <<"THROTTLE_POS", 10>>,
       <<"MAF", 12>>, <<"SPEED", 0>>, <<"LONG_FUEL_TRIM_1", 18>>, <<"SHORT_FUEL_TRIM_1", 15>>,
       <<"O2_B1S1", 1>> >>

Cruise ==
    << <<"RPM", 1200>>, <<"COOLANT_TEMP", 90>>, <<"ENGINE_LOAD", 15>>, <<"THROTTLE_POS", 25>>,
       <<"MAF", 20>>, <<"SPEED", 60>>, <<"LONG_FUEL_TRIM_1", 0>>, <<"SHORT_FUEL_TRIM_1", 0>>,
       <<"O2_B1S1", 0>> >>

Partial == << <<"SPEED", 30>>, <<"RPM", 1000>> >>

Blank == <<>>

Runs == {0, 1, CORR_MIN_SAMPLES - 1, CORR_MIN_SAMPLES, CORR_MIN_SAMPLES + Extra}

RunPairs == {<<HotIdle, HotterIdle>>, <<HotterIdle, Cruise>>, <<Cruise, Partial>>,
             <<Partial, Blank>>, <<Blank, HotIdle>>}

\* A run of one kind of sample followed by a run of another
SampleRuns == {Repeat(p[1], a) \o Repeat(p[2], b) : p \in RunPairs, a \in Runs, b \in Runs}

\* k times the sample X followed by the sample Y
Alternate(X, Y, k) == [i \in 1..(2 * k) |-> IF i % 2 = 1 THEN X ELSE Y]

Alternations == {Alternate(HotIdle, Cruise, k) : k \in {CORR_MIN_SAMPLES \div 2, CORR_MIN_SAMPLES + Extra}}

D_P0171 == DTCInfo(P0171, "warning")

D_P0174 == DTCInfo(P0174, "warning")

D_P0300 == DTCInfo(P0300, "critical")

\* DTC read results: none stored on the session; one without codes; one
\* with a critical code, two codes of one system and a recurring code; one
\* with two recurring codes
DTCResults ==
    { DTCReadResult(<<>>, <<>>, <<>>),
      DTCReadResult(<<D_P0171, D_P0174, D_P0300>>, <<D_P0171>>, <<>>),
      DTCReadResult(<<D_P0171, D_P0300>>, <<D_P0300, D_P0171>>, <<>>) }

DTCSamples ==
    { <<>>,
      Repeat(HotIdle, CORR_MIN_SAMPLES) \o Repeat(HotterIdle, CORR_MIN_SAMPLES + Extra),
      Alternate(HotIdle, Cruise, CORR_MIN_SAMPLES + Extra) }

Sessions ==
    {DiagnosticSession(samples, NoDTC) : samples \in SampleRuns \cup Alternations}
    \cup {DiagnosticSession(samples, dtc) : samples \in DTCSamples, dtc \in DTCResults}

\* ------------------------------------------------------------------------
\* LiveDataCollector (collectors/live.py)
\*
\* The buffer is a queue.Queue, whose put_nowait and get_nowait are atomic;
\* every other statement of the stream loop is a step of its own, so that
\* the caller's thread and the loop threads interleave between statements.
\* A sample is the number of its production, 1, 2, ...  The capacity of the
\* buffer (maxsize=1000 at live.py:48) is scaled down to MaxBuffer.
\* ------------------------------------------------------------------------
MaxBuffer == 2

MaxThreads == 2

MaxProduced == 3

Threads == 1..MaxThreads

\* A thread that start_streaming has not created yet
Unborn == [pc |-> "unborn", sample |-> 0, count |-> 0]

\* The state after __init__ (live.py:42-55); thread 0 is None.  notified
\* is the number of calls of the one subscribed callback;
\* produced, enqueued and queued record what the loops did: the samples
\* created, the samples put into the buffer, and the number of them put
\* since sample_count was last reset.
NewCollector ==
    [running |-> FALSE, stop_event |-> FALSE, thread |-> 0, buffer |-> <<>>,
     sample_count |-> 0, loops |-> [t \in Threads |-> Unborn],
     caller |-> [pc |-> "idle", left |-> 0, samples |-> <<>>],
     notified |-> 0, produced |-> 0, enqueued |-> {}, queued |-> 0]

Alive(c, t) == c.loops[t].pc \notin {"unborn", "done"}

\* The loop is inside read_pid, inside a callback or inside time.sleep
Blocked(c, t) == c.loops[t].pc \in {"read", "notify", "sleep"}

At(c, t, pc) == [c EXCEPT !.loops[t].pc = pc]

\* queue.Queue.put_nowait when there is room
Put(c, sample) ==
    [c EXCEPT !.buffer = Append(@, sample), !.enqueued = @ \cup {sample}, !.queued = @ + 1]

\* live.py:127: while not self._stop_event.is_set()
stream_loop_while(c, t) ==
    IF c.stop_event THEN At(c, t, "done") ELSE At(c, t, "read")

\* live.py:130-146: the PIDs are read; with no value there is no sample
stream_loop_read(c, t, some) ==
    IF some /\ c.produced < MaxProduced
    THEN [c EXCEPT !.produced = @ + 1, !.loops[t] = [pc |-> "put", sample |-> c.produced + 1, count |-> 0]]
    ELSE At(c, t, "sleep")

\* live.py:149-151: put_nowait, or queue.Full
stream_loop_put(c, t) ==
    IF Len(c.buffer) < MaxBuffer
    THEN At(Put(c, c.loops[t].sample), t, "notify")
    ELSE At(c, t, "discard")

\* live.py:153-154 and 156-157: get_nowait drops the oldest sample, or
\* queue.Empty is swallowed
stream_loop_discard(c, t) ==
    IF c.buffer # <<>>
    THEN At([c EXCEPT !.buffer = Tail(@)], t, "reput")
    ELSE At(c, t, "notify")

\* live.py:155-157: the second put_nowait, or queue.Full is swallowed
stream_loop_reput(c, t) ==
    IF Len(c.buffer) < MaxBuffer
    THEN At(Put(c, c.loops[t].sample), t, "notify")
    ELSE At(c, t, "notify")

\* live.py:160-164: the callbacks are called with the sample
stream_loop_notify(c, t) ==
    At([c EXCEPT !.notified = @ + 1], t, "load")

\* live.py:166, self._sample_count += 1: the read of the attribute
stream_loop_load(c, t) ==
    [c EXCEPT !.loops[t].count = c.sample_count, !.loops[t].pc = "store"]

\* live.py:166: the write of the attribute
stream_loop_store(c, t) ==
    At([c EXCEPT !.sample_count = c.loops[t].count + 1], t, "sleep")

\* live.py:169: time.sleep(self._interval) is over
stream_loop_sleep(c, t) == At(c, t, "check")

\* live.py:96-102; the connection is there, so _ensure_connected returns
start_streaming(c) ==
    IF c.running THEN c
    ELSE [c EXCEPT !.stop_event = FALSE, !.running = TRUE, !.caller.pc = "starting"]

\* live.py:103-108: the counters are reset and the thread t is started
start_streaming_thread(c, t) ==
    [c EXCEPT !.sample_count = 0, !.queued = 0, !.thread = t,
              !.loops[t] = [pc |-> "check", sample |-> 0, count |-> 0],
              !.caller.pc = "idle"]

\* live.py:113-117
stop_streaming(c) ==
    IF ~c.running THEN c
    ELSE [c EXCEPT !.stop_event = TRUE, !.running = FALSE,
                   !.caller.pc = IF c.thread # 0 THEN "joining" ELSE "idle"]

\* live.py:120-121: join(timeout=2.0) has returned
stop_streaming_joined(c) == [c EXCEPT !.thread = 0, !.caller.pc = "idle"]

\* live.py:200
get_buffered_samples(c, max_samples) ==
    [c EXCEPT !.caller = [pc |-> "getting", left |-> max_samples, samples |-> <<>>]]

\* live.py:201-207: one turn of the loop, or the return
get_buffered_samples_turn(c) ==
    IF c.caller.left > 0 /\ c.buffer # <<>>
    THEN [c EXCEPT !.buffer = Tail(@), !.caller.left = @ - 1,
                   !.caller.samples = Append(@, Head(c.buffer))]
    ELSE [c EXCEPT !.caller.pc = "idle"]

\* live.py:209-211
clear_buffer(c) == [c EXCEPT !.caller.pc = "clearing"]

\* live.py:211-215: one turn of the loop, or the return
clear_buffer_turn(c) ==
    IF c.buffer # <<>>
    THEN [c EXCEPT !.buffer = Tail(@)]
    ELSE [c EXCEPT !.caller.pc = "idle"]

\* ------------------------------------------------------------------------
\* ConnectionManager (connection/manager.py)
\*
\* A call of connect, disconnect or reconnect runs in the caller's thread
\* from entry to return.  What the serial ports and the adapter answer is
\* an input of the call: the adapter found for the port (or None), and
\* the outcome of obd.OBD(...), an exception or the status of the new
\* connection.
\* ------------------------------------------------------------------------
MaxCalls == 4

Ports == {"COM3", "COM4"}

\* port=None of connect (manager.py:98)
NoPort == "None"

\* AdapterType values that get_port_by_name can give (adapter.py:11-16, 179-183)
AdapterTypes == {"USB ELM327", "Unknown"}

AdapterInfo(port, adapter_type) ==
    [present |-> TRUE, port |-> port, adapter_type |-> adapter_type]

\* None where an AdapterInfo is expected
NoAdapter == [present |-> FALSE, port |-> NoPort, adapter_type |-> "Unknown"]

OBD_NOT_CONNECTED == "NOT_CONNECTED"

OBD_CONNECTED == "OBD_CONNECTED"

CAR_CONNECTED == "CAR_CONNECTED"

\* What obd.OBD(...) can do at manager.py:144-152
OBDOutcomes == {"raise", OBD_NOT_CONNECTED, OBD_CONNECTED, CAR_CONNECTED}

\* What protocol_name() can return (manager.py:156, 168); "" is falsy
ProtocolNames == {"", "ISO 15765-4"}

\* An obd.OBD object held in _connection
OBD(port, status) == [held |-> TRUE, port |-> port, status |-> status]

\* _connection = None
NoConnection == [held |-> FALSE, port |-> NoPort, status |-> OBD_NOT_CONNECTED]

\* No call has returned a ConnectionResult yet
NoConnectionResult ==
    [present |-> FALSE, success |-> FALSE, state |-> "disconnected", message |-> "",
     adapter_info |-> NoAdapter, protocol |-> ""]

\* manager.py:25-33
ConnectionResult(success, state, message, adapter_info, protocol) ==
    [present |-> TRUE, success |-> success, state |-> state, message |-> message,
     adapter_info |-> adapter_info, protocol |-> protocol]

\* manager.py:39-44.  result is the value the last connect or reconnect
\* returned; determined is the adapter information the last connect
\* determined for its port, replaced whether it found a connection open,
\* live the number of connections opened and not closed, last the method
\* called last, calls the number of calls made.
NewManager ==
    [connection |-> NoConnection, adapter_info |-> NoAdapter, state |-> "disconnected",
     protocol |-> "", result |-> NoConnectionResult, determined |-> NoAdapter,
     replaced |-> FALSE, live |-> 0, last |-> "__init__", calls |-> 0]

\* manager.py:54-59
ConnectionManager_is_connected(m) ==
    IF ~m.connection.held THEN FALSE ELSE m.connection.status # OBD_NOT_CONNECTED

\* manager.py:61-66
ConnectionManager_is_car_connected(m) ==
    IF ~m.connection.held THEN FALSE ELSE m.connection.status = CAR_CONNECTED

\* manager.py:87-94, with no callback registered
ConnectionManager_set_state(m, state) == [m EXCEPT !.state = state]

\* manager.py:198-211
ConnectionManager_disconnect(m) ==
    LET closed == IF m.connection.held
                  THEN [m EXCEPT !.connection = NoConnection,
                                 !.live = IF m.connection.status # OBD_NOT_CONNECTED
                                          THEN @ - 1 ELSE @]
                  ELSE m
    IN  ConnectionManager_set_state(
            [closed EXCEPT !.adapter_info = NoAdapter, !.protocol = ""], "disconnected")

\* manager.py:141-196: the try block of connect
ConnectionManager_connect_open(m, port, outcome, protocol_name) ==
    IF outcome = "raise"
    THEN [ConnectionManager_set_state(m, "error") EXCEPT
             !.result = ConnectionResult(FALSE, "error", "Connection failed", NoAdapter, "")]
    ELSE LET opened == [m EXCEPT !.connection = OBD(port, outcome),
                                 !.live = IF outcome # OBD_NOT_CONNECTED THEN @ + 1 ELSE @]
             protocol == IF protocol_name # "" THEN protocol_name ELSE "Unknown"
         IN  IF outcome = CAR_CONNECTED
             THEN [ConnectionManager_set_state(opened, "car_connected") EXCEPT
                      !.protocol = protocol,
                      !.result = ConnectionResult(TRUE, "car_connected", "Connected to vehicle",
                                                  opened.adapter_info, protocol)]
             ELSE IF outcome = OBD_CONNECTED
             THEN [ConnectionManager_set_state(opened, "connected") EXCEPT
                      !.protocol = protocol,
                      !.result = ConnectionResult(TRUE, "connected", "Connected to adapter",
                                                  opened.adapter_info, protocol)]
             ELSE [ConnectionManager_set_state(opened, "error") EXCEPT
                      !.result = ConnectionResult(FALSE, "error",
                                                  "Failed to establish connection", NoAdapter, "")]

\* manager.py:137-139: the old connection is closed by disconnect()
ConnectionManager_connect_close(m) ==
    IF m.connection.held THEN ConnectionManager_disconnect(m) ELSE m

\* manager.py:96-196.  found is what find_best_adapter() (port None) or
\* get_port_by_name(port) returned.
ConnectionManager_connect(m, port, found, outcome, protocol_name) ==
    LET connecting == [ConnectionManager_set_state(m, "connecting") EXCEPT
                          !.determined = found, !.replaced = m.connection.held]
    IN  IF port = NoPort /\ ~found.present
        THEN [ConnectionManager_set_state(connecting, "error") EXCEPT
                 !.result = ConnectionResult(FALSE, "error", "No OBD2 adapter found",
                                             NoAdapter, "")]
        ELSE ConnectionManager_connect_open(
                 ConnectionManager_connect_close([connecting EXCEPT !.adapter_info = found]),
                 IF port = NoPort THEN found.port ELSE port, outcome, protocol_name)

\* manager.py:213-217
ConnectionManager_reconnect(m, found, outcome, protocol_name) ==
    LET port == IF m.adapter_info.present THEN m.adapter_info.port ELSE NoPort
    IN  ConnectionManager_connect(ConnectionManager_disconnect(m), port, found, outcome,
                                  protocol_name)

\* What the adapter detection can return for the port of a connect call:
\* find_best_adapter gives one of the adapters or None (adapter.py:84-102),
\* get_port_by_name the information of that port or None (adapter.py:173-185)
Detections(port) ==
    {NoAdapter} \cup
    IF port = NoPort
    THEN {AdapterInfo(p, "USB ELM327") : p \in Ports}
    ELSE {AdapterInfo(port, t) : t \in AdapterTypes}

\* ------------------------------------------------------------------------
\* SessionLogger (storage/logger.py)
\*
\* A session is the number of its start_session call, 1, 2, ..., and
\* stands for the DiagnosticSession object and for the file named after
\* its session_id; 0 is None.  A sample is the number of its log_sample
\* call.
\* ------------------------------------------------------------------------
MaxSessions == 3

MaxLogged == 3

LoggedSessions == 1..MaxSessions

Formats == {"json", "csv"}

\* A DiagnosticSession that start_session has not created yet
NotStarted == [started |-> FALSE, pid_samples |-> <<>>, ended |-> FALSE]

\* A file that does not exist
NoFile == [exists |-> FALSE, samples |-> <<>>, closed |-> FALSE]

\* logger.py:21-41.  sessions are the DiagnosticSession objects created so
\* far and files the files written; returned is the value of the last
\* end_session call, last the method called last, and history the
\* log_sample calls made: the session that was active (0 for none) and the
\* sample.
NewLogger(format) ==
    [format |-> format, current_session |-> 0, current_file |-> 0, csv_file |-> 0,
     sample_count |-> 0, sessions |-> [s \in LoggedSessions |-> NotStarted],
     files |-> [s \in LoggedSessions |-> NoFile], returned |-> 0, last |-> "__init__",
     history |-> <<>>]

\* logger.py:53-56
SessionLogger_is_logging(l) == l.current_session # 0

\* logger.py:170-178
SessionLogger_write_json(l) ==
    IF l.current_session = 0 \/ l.current_file = 0
    THEN l
    ELSE [l EXCEPT !.files[l.current_file] =
             [exists |-> TRUE, samples |-> l.sessions[l.current_session].pid_samples,
              closed |-> TRUE]]

\* logger.py:140-168
SessionLogger_end_session(l) ==
    IF l.current_session = 0
    THEN [l EXCEPT !.returned = 0]
    ELSE LET ended == [l EXCEPT !.sessions[l.current_session].ended = TRUE]
             saved == IF l.format = "csv"
                      THEN IF l.csv_file # 0
                           THEN [ended EXCEPT !.files[l.csv_file].closed = TRUE,
                                              !.csv_file = 0]
                           ELSE ended
                      ELSE SessionLogger_write_json(ended)
         IN  [saved EXCEPT !.returned = l.current_file, !.current_session = 0,
                           !.current_file = 0]

\* logger.py:96-104
SessionLogger_init_csv(l) ==
    [l EXCEPT !.csv_file = l.current_file,
              !.files[l.current_file] = [exists |-> TRUE, samples |-> <<>>, closed |-> FALSE]]

\* logger.py:78-94: the new session and its file
SessionLogger_new_session(l, id) ==
    LET created == [l EXCEPT !.sessions[id] = [started |-> TRUE, pid_samples |-> <<>>,
                                               ended |-> FALSE],
                             !.current_session = id, !.current_file = id,
                             !.sample_count = 0]
    IN  IF l.format = "csv" THEN SessionLogger_init_csv(created) ELSE created

\* start_session that leaves the active session as it is
SessionLogger_start_session_over(l, id) == SessionLogger_new_session(l, id)

\* logger.py:58-94
SessionLogger_start_session(l, id) ==
    SessionLogger_new_session(
        IF l.current_session # 0 THEN SessionLogger_end_session(l) ELSE l, id)

\* logger.py:106-128
SessionLogger_log_sample(l, sample) ==
    IF l.current_session = 0
    THEN l
    ELSE LET added == [l EXCEPT !.sessions[l.current_session].pid_samples = Append(@, sample),
                                !.sample_count = @ + 1]
         IN  IF l.format = "csv" /\ l.csv_file # 0
             THEN [added EXCEPT !.files[l.csv_file].samples = Append(@, sample)]
             ELSE added

\* ------------------------------------------------------------------------
\* State machine
\* ------------------------------------------------------------------------

NoLocals == [exit |-> "none", series |-> <<>>, correlations |-> <<>>, metrics |-> <<>>,
             findings |-> <<>>, stages |-> <<>>]

NoProbe == [called |-> FALSE, x |-> <<>>, y |-> <<>>, xy |-> NoValue, yx |-> NoValue]

Unset == [called |-> FALSE, value |-> FALSE]

Idle ==
    /\ res = [a \in Analyzers |-> NoResult]
    /\ corr_locals = NoLocals
    /\ hrd = [a \in Analyzers |-> Unset]
    /\ probe = NoProbe
    /\ collector = NewCollector
    /\ manager = NewManager
    /\ slogger = NewLogger("json")

Init ==
    /\ session \in Sessions
    /\ Idle

CorrelatorAnalyze ==
    \E rounding \in Roundings(Correlator_extract_series(session)) :
        /\ corr_locals' = Correlator_locals(session, rounding)
        /\ res' = [res EXCEPT !["Correlator"] = Correlator_outcome(corr_locals')]
        /\ session' = analyze_session_effect(session, res'["Correlator"])
        /\ UNCHANGED <<hrd, probe, collector, manager, slogger>>

FaultDetectorAnalyze ==
    \E recurring_list \in Orderings(Recurring(session.dtc_result)) :
        /\ res' = [res EXCEPT !["FaultDetector"] = FaultDetector_analyze(session, recurring_list)]
        /\ session' = analyze_session_effect(session, res'["FaultDetector"])
        /\ UNCHANGED <<corr_locals, hrd, probe, collector, manager, slogger>>

FuelEconomyAnalyzerAnalyze ==
    /\ res' = [res EXCEPT !["FuelEconomyAnalyzer"] = FuelEconomyAnalyzer_analyze(session)]
    /\ session' = analyze_session_effect(session, res'["FuelEconomyAnalyzer"])
    /\ UNCHANGED <<corr_locals, hrd, probe, collector, manager, slogger>>

PerformanceAnalyzerAnalyze ==
    /\ res' = [res EXCEPT !["PerformanceAnalyzer"] = PerformanceAnalyzer_analyze(session)]
    /\ session' = analyze_session_effect(session, res'["PerformanceAnalyzer"])
    /\ UNCHANGED <<corr_locals, hrd, probe, collector, manager, slogger>>

Next ==
    \/ CorrelatorAnalyze
    \/ FaultDetectorAnalyze
    \/ FuelEconomyAnalyzerAnalyze
    \/ PerformanceAnalyzerAnalyze

Spec == Init /\ [][Next]_vars

\* ------------------------------------------------------------------------
\* Correlation sessions: every sample carries the two PIDs of a pair, in
\* one of the two key orders, with values drawn from a small table
\* ------------------------------------------------------------------------

CorrPairs ==
    { <<"RPM", "MAF">>, <<"MAF", "RPM">>,
      <<"THROTTLE_POS", "ENGINE_LOAD">>, <<"ENGINE_LOAD", "THROTTLE_POS">>,
      <<"SPEED", "RPM">>, <<"RPM", "SPEED">>,
      <<"RPM", "COOLANT_TEMP">> }

CorrLens == CORR_MIN_SAMPLES..(CORR_MIN_SAMPLES + Extra)

\* How many samples of a session may carry the third value level
MaxHigh == 1

Pair(pq, x, y) == << <<pq[1], x>>, <<pq[2], y>> >>

\* c[1] samples (0,0), c[2] samples (0,1), c[3] samples (1,0), c[4] samples
\* (1,1) and c[5] samples (2,1)
Table(pq, c) ==
    Repeat(Pair(pq, 0, 0), c[1]) \o Repeat(Pair(pq, 0, 1), c[2]) \o Repeat(Pair(pq, 1, 0), c[3])
        \o Repeat(Pair(pq, 1, 1), c[4]) \o Repeat(Pair(pq, 2, 1), c[5])

TableCounts ==
    LET N == 0..(CORR_MIN_SAMPLES + Extra)
    IN  {c \in N \X N \X N \X N \X (0..MaxHigh) : c[1] + c[2] + c[3] + c[4] + c[5] \in CorrLens}

CorrSessions == {DiagnosticSession(Table(pq, c), NoDTC) : pq \in CorrPairs, c \in TableCounts}

CorrInit ==
    /\ session \in CorrSessions
    /\ Idle

\* A caller applies _pearson_correlation to two series of the session, in
\* both argument orders.  The two calls add and multiply the same floats,
\* with the factors of each product exchanged, so they round alike.
PearsonProbe ==
    LET values == CollectValues(session.pid_samples)
    IN  \E i, j \in 1..Len(values), err \in Errs :
            /\ i < j
            /\ probe' = [called |-> TRUE, x |-> values[i].vals, y |-> values[j].vals,
                         xy |-> Correlator_pearson_correlation(values[i].vals, values[j].vals, err),
                         yx |-> Correlator_pearson_correlation(values[j].vals, values[i].vals, err)]
            /\ UNCHANGED <<session, res, corr_locals, hrd, collector, manager, slogger>>

\* The Correlator alone on the correlation sessions
CorrSpec == CorrInit /\ [][CorrelatorAnalyze]_vars

\* The Pearson computation alone on the series of the correlation sessions
PearsonSpec == CorrInit /\ [][PearsonProbe]_vars

\* ------------------------------------------------------------------------
\* has_required_data: sessions of a few samples with few PIDs each
\* ------------------------------------------------------------------------

MaxSamples == 2

SampleKinds ==
    { <<>>,
      << <<"INTAKE_TEMP", 20>> >>,
      << <<"O2_B1S1", 1>> >>,
      << <<"SPEED", 30>> >>,
      << <<"INTAKE_TEMP", 20>>, <<"THROTTLE_POS", 10>> >>,
      << <<"MAF", 12>>, <<"RPM", 700>> >> }

RequiredSessions ==
    {DiagnosticSession(samples, NoDTC) :
        samples \in UNION {[1..n -> SampleKinds] : n \in 0..MaxSamples}}

RequiredInit ==
    /\ session \in RequiredSessions
    /\ Idle

HasRequiredData(a) ==
    /\ hrd' = [hrd EXCEPT ![a] = [called |-> TRUE, value |-> has_required_data(a, session)]]
    /\ UNCHANGED <<session, res, corr_locals, probe, collector, manager, slogger>>

RequiredNext == \E a \in Analyzers : HasRequiredData(a)

RequiredSpec == RequiredInit /\ [][RequiredNext]_vars

\* ------------------------------------------------------------------------
\* Properties
\* ------------------------------------------------------------------------

Called(a) == res[a].status # "none"

Returned(a) == res[a].status = "returned"

\* C1: on a session with zero PID samples, with or without a trouble-code
\* result, analyze of each of the four analyzers returns a result with
\* exactly one finding, of severity info, and a non-empty summary, and
\* raises no error.
ZeroSamplesGiveOneInfoFinding ==
    session.pid_samples = <<>> =>
        \A a \in Analyzers : Called(a) =>
            /\ Returned(a)
            /\ Len(res[a].findings) = 1
            /\ res[a].findings[1].severity = "info"
            /\ res[a].summary.text # ""

\* Every mean, stdev, max, division and index the four analyzers reach on
\* the session is reached with its precondition holding.
PreconditionsHold ==
    /\ AllOk(Correlator_calls(Correlator_extract_series(session)))
    /\ AllOk(FaultDetector_calls(session))
    /\ AllOk(FuelEconomyAnalyzer_calls(session))
    /\ AllOk(PerformanceAnalyzer_calls(session))

\* C2: on every session analyze of each analyzer completes and returns an
\* AnalysisResult without raising, every division and standard deviation
\* being reached only when its precondition holds.
AnalyzeNeverRaises ==
    /\ \A a \in Analyzers : Called(a) => Returned(a)
    /\ PreconditionsHold

AllNumbers(metrics) == \A k \in 1..Len(metrics) : metrics[k].value.kind = "number"

\* C3: the metrics of every returned AnalysisResult map each name to one
\* number, in particular those of the result the Correlator builds once it
\* is past its early exits and has computed the pairwise correlations.
MetricsAreNumbers ==
    /\ \A a \in Analyzers : Returned(a) => AllNumbers(res[a].metrics)
    /\ corr_locals.exit = "end" =>
           /\ Returned("Correlator")
           /\ AllNumbers(corr_locals.metrics)
           /\ res["Correlator"].metrics = corr_locals.metrics

\* The results analyze of the analyzer a can give on the session when it is
\* the only analyzer run on it
AloneResults(a) ==
    CASE a = "Correlator" ->
            {Correlator_analyze(session, rounding) :
                rounding \in Roundings(Correlator_extract_series(session))}
      [] a = "FaultDetector" ->
            {FaultDetector_analyze(session, recurring_list) :
                recurring_list \in Orderings(Recurring(session.dtc_result))}
      [] a = "FuelEconomyAnalyzer" -> {FuelEconomyAnalyzer_analyze(session)}
      [] OTHER -> {PerformanceAnalyzer_analyze(session)}

HasRequiredDataIffSomeRequiredPid ==
    \A a \in Analyzers : hrd[a].called =>
        (hrd[a].value <=>
            \E i \in 1..Len(session.pid_samples) :
                \E k \in 1..Len(get_required_pids(a)) :
                    Has(session.pid_samples[i], get_required_pids(a)[k]))

\* has_required_data answered true for a session none of whose samples has
\* more than one of the required names, and false for another analyzer on
\* the same session.
OneRequiredPidIsEnough ==
    /\ session.pid_samples # <<>>
    /\ \E a \in Analyzers :
           /\ hrd[a].called /\ hrd[a].value
           /\ \A i \in 1..Len(session.pid_samples) :
                  Cardinality(ToSet(get_required_pids(a)) \cap Keys(session.pid_samples[i])) <= 1
    /\ \E a \in Analyzers : hrd[a].called /\ ~hrd[a].value

\* The stage of FaultDetector.analyze a finding comes from: trouble codes,
\* sensor anomalies, fuel system, O2 sensors, symptom correlation
FaultDetectorStage(f) ==
    CASE f.title \in {"Critical DTCs Present", "Multiple Codes", "Recurring Faults"} -> 1
      [] f.title \in {"Temperature Rising Continuously", "Sensor May Be Stuck"} -> 2
      [] f.title \in {"System Running Lean", "System Running Rich", "Erratic Fuel Trim"} -> 3
      [] f.title \in {"O2 Sensor Not Switching", "O2 Sensor Indicates Rich", "O2 Sensor Indicates Lean"} -> 4
      [] f.title \in {"Vacuum Leak Likely", "Fuel Injector Issue Likely"} -> 5
      [] OTHER -> 0

\* The stage of PerformanceAnalyzer.analyze a finding comes from: RPM, load,
\* throttle, coolant, trouble codes
PerformanceAnalyzerStage(f) ==
    CASE f.title \in {"Rough Idle Detected", "RPM Fluctuations Detected"} -> 1
      [] f.title \in {"High Idle Load", "Load Fluctuations"} -> 2
      [] f.title \in {"Throttle Response Lag"} -> 3
      [] f.title \in {"Elevated Coolant Temperature", "Warm Coolant Temperature",
                      "Engine Not Reaching Temperature"} -> 4
      [] f.title \in {"Misfire Codes Present"} -> 5
      [] OTHER -> 0

\* The findings are grouped by stage, the stages in order, and each stage's
\* part of the list is all that the stage detected, in the order detected.
InDetectionOrder(findings, stages, Stage(_)) ==
    /\ \A i \in 1..Len(findings) : Stage(findings[i]) \in 1..Len(stages)
    /\ \A i, j \in 1..Len(findings) : i < j => Stage(findings[i]) <= Stage(findings[j])
    /\ \A k \in 1..Len(stages) : SelectSeq(findings, LAMBDA f : Stage(f) = k) = stages[k]

\* C6: the findings of a result are in detection order, never sorted or
\* filtered by severity: FaultDetector lists trouble-code, sensor-anomaly,
\* fuel-system, O2 and symptom findings in that order, PerformanceAnalyzer
\* RPM, load, throttle, coolant and trouble-code findings, and no detected
\* finding is removed because a more severe one is present.
FindingsInDetectionOrder ==
    /\ Returned("FaultDetector") =>
           \E recurring_list \in Orderings(Recurring(session.dtc_result)) :
               InDetectionOrder(res["FaultDetector"].findings,
                                FaultDetector_stage_findings(session, recurring_list),
                                FaultDetectorStage)
    /\ (Returned("PerformanceAnalyzer") /\ session.pid_samples # <<>>) =>
           InDetectionOrder(res["PerformanceAnalyzer"].findings,
                            PerformanceAnalyzer_stage_findings(session),
                            PerformanceAnalyzerStage)

CriticalFollowsLower(findings) ==
    \E i, j \in 1..Len(findings) :
        /\ i < j
        /\ findings[i].severity \in {"warning", "info"}
        /\ findings[j].severity = "critical"

\* Both analyzers returned a list in which a critical finding follows a
\* warning or info finding.
CriticalAfterLowerSeverity ==
    /\ Returned("FaultDetector") /\ CriticalFollowsLower(res["FaultDetector"].findings)
    /\ Returned("PerformanceAnalyzer") /\ CriticalFollowsLower(res["PerformanceAnalyzer"].findings)

PidsOf(s) == UNION {Keys(s.pid_samples[i]) : i \in 1..Len(s.pid_samples)}

ValueCount(s, pid) == Cardinality({i \in 1..Len(s.pid_samples) : Has(s.pid_samples[i], pid)})

\* The parameters with at least 10 extracted values
RetainedPids(s) == {pid \in PidsOf(s) : ValueCount(s, pid) >= 10}

\* C7: Correlator.analyze takes its early exit, returning exactly one info
\* finding and running none of the correlation, outlier and trend stages,
\* exactly when the session has fewer than 10 samples or fewer than 2
\* parameters have at least 10 values; otherwise it runs the three stages
\* over exactly the parameters with at least 10 values.
CorrelatorEarlyExit ==
    corr_locals.exit # "none" =>
        IF Len(session.pid_samples) < 10 \/ Cardinality(RetainedPids(session)) < 2
        THEN /\ corr_locals.exit \in {"insufficient_data", "insufficient_pids"}
             /\ corr_locals.stages = <<>>
             /\ Returned("Correlator")
             /\ Len(res["Correlator"].findings) = 1
             /\ res["Correlator"].findings[1].severity = "info"
        ELSE /\ corr_locals.exit = "end"
             /\ Len(corr_locals.stages) = 3
             /\ corr_locals.stages[1][1] = "correlations"
             /\ corr_locals.stages[2][1] = "anomalies"
             /\ corr_locals.stages[3][1] = "trends"
             /\ \A k \in 1..3 : ToSet(corr_locals.stages[k][2]) = RetainedPids(session)

\* The three stages ran on a session of which they were given only some of
\* the parameters, a series short of 10 values having been dropped.
StagesRunWithoutShortSeries ==
    /\ corr_locals.exit = "end"
    /\ RetainedPids(session) # PidsOf(session)
    /\ RetainedPids(session) # {}

IsConstant(v) == \A i, j \in 1..Len(v) : v[i] = v[j]

\* corr(A,B) = corr(B,A) for the values computed
PearsonSymmetric == probe.called => probe.xy = probe.yx

\* No value when either series is constant, and then no entry in the map
PearsonNoValueWhenConstant ==
    /\ probe.called =>
           ((IsConstant(probe.x) \/ IsConstant(probe.y)) => probe.xy.kind = "None")
    /\ LET series == Correlator_extract_series(session)
           map    == Correlator_calculate_correlations(series, NoRounding)
       IN  \A i, j \in 1..Len(series) :
               (i < j /\ (IsConstant(series[i].vals) \/ IsConstant(series[j].vals)))
                   => ~InMap(map, <<series[i].pid, series[j].pid>>)

\* C8: the Pearson computation is symmetric in its two series, every value
\* it returns lies in [-1,1], it returns no value when either series is
\* constant, and a pair without a value is left out of the correlation map.
PearsonSymmetricAndBounded ==
    /\ PearsonSymmetric
    /\ probe.called => (probe.xy.kind = "r" => InUnitInterval(probe.xy))
    /\ PearsonNoValueWhenConstant

LowCorrelationFindings(findings, pid1, pid2) ==
    SelectSeq(findings, LAMBDA f : f.title = "Unexpected Low Correlation" /\ f.subject = <<pid1, pid2>>)

\* The coefficients the map holds for the pair under either key order
StoredCoefficients(correlations, pid1, pid2) ==
    {correlations[k].corr : k \in {k \in 1..Len(correlations) :
                                      correlations[k].key \in {<<pid1, pid2>>, <<pid2, pid1>>}}}

\* One 'Unexpected Low Correlation' finding for an expected pair exactly
\* when the map holds a coefficient for it below the minimum; a warning
\* when the coefficient is below 0, info otherwise.
LowCorrelationRule(findings, correlations) ==
    \A e \in {<<"RPM", "MAF", 5>>, <<"THROTTLE_POS", "ENGINE_LOAD", 4>>, <<"SPEED", "RPM", 3>>} :
        LET found == LowCorrelationFindings(findings, e[1], e[2])
            coefs == StoredCoefficients(correlations, e[1], e[2])
        IN  /\ Len(found) <= 1
            /\ found # <<>> <=> \E r \in coefs : CoefLess(r, e[3], 10)
            /\ \A r \in coefs : found # <<>> =>
                   found[1].severity = IF CoefLess(r, 0, 1) THEN "warning" ELSE "info"

\* The list _analyze_expected_correlations hands back inside analyze
\* follows the rule.
ExpectedStageFollowsLowCorrelationRule ==
    corr_locals.exit = "end" => LowCorrelationRule(corr_locals.findings, corr_locals.correlations)

\* C9: for each expected pair (RPM-MAF 0.5, THROTTLE_POS-ENGINE_LOAD 0.4,
\* SPEED-RPM 0.3) the Correlator emits an 'Unexpected Low Correlation'
\* finding exactly when the pair is in the correlation map under either key
\* order with a coefficient below the minimum, a warning when the
\* coefficient is below 0 and info otherwise, and none for an absent pair.
CorrelatorEmitsLowCorrelationFindings ==
    corr_locals.exit = "end" =>
        LowCorrelationRule(res["Correlator"].findings, corr_locals.correlations)

\* With an RPM-SPEED coefficient below -0.3: the info finding 'Negative
\* RPM-Speed Correlation' together with the SPEED-RPM low-correlation
\* warning; otherwise no 'Negative RPM-Speed Correlation' finding.
NegativeCorrelationRule(findings, correlations) ==
    LET coefs    == StoredCoefficients(correlations, "RPM", "SPEED")
        negative == SelectSeq(findings, LAMBDA f : f.title = "Negative RPM-Speed Correlation")
        low      == LowCorrelationFindings(findings, "SPEED", "RPM")
    IN  /\ coefs = {} => negative = <<>>
        /\ \A r \in coefs :
               IF CoefLess(r, -3, 10)
               THEN /\ Len(negative) = 1 /\ negative[1].severity = "info"
                    /\ Len(low) = 1 /\ low[1].severity = "warning"
               ELSE negative = <<>>

\* The list _analyze_expected_correlations hands back inside analyze
\* follows the rule.
ExpectedStageFollowsNegativeRule ==
    corr_locals.exit = "end" => NegativeCorrelationRule(corr_locals.findings, corr_locals.correlations)

\* C10: whenever the RPM-SPEED coefficient is below -0.3 the Correlator
\* result contains the info finding 'Negative RPM-Speed Correlation' in
\* addition to the SPEED-RPM low-correlation finding, then a warning; when
\* the coefficient is at or above -0.3 the separate finding is absent.
CorrelatorResultHasNegativeFinding ==
    corr_locals.exit = "end" =>
        NegativeCorrelationRule(res["Correlator"].findings, corr_locals.correlations)

\* ------------------------------------------------------------------------
\* Trend sessions: a RPM series rising or falling by a fixed step per
\* sample, next to a constant SPEED series
\* ------------------------------------------------------------------------

TrendLens == (CORR_MIN_TREND - 1)..(CORR_MIN_TREND + Extra)

TrendSteps == {-1, 0, 1}

TrendStarts == {-110, -60, -10, 40, 41, 90, 91}

Ramp(n, start, step) ==
    [i \in 1..n |-> << <<"RPM", start + step * (i - 1)>>, <<"SPEED", 5>> >>]

TrendSessions ==
    {DiagnosticSession(Ramp(n, start, step), NoDTC) :
        n \in TrendLens, start \in TrendStarts, step \in TrendSteps}

TrendInit ==
    /\ session \in TrendSessions
    /\ Idle

\* The Correlator alone on the trend sessions
TrendSpec == TrendInit /\ [][CorrelatorAnalyze]_vars

\* Least-squares slope of v against the index 0..n-1, as the quotient
\* OlsNum / OlsDen:  (n*Sum(i*v[i]) - Sum(i)*Sum(v)) / (n*Sum(i^2) - Sum(i)^2)
OlsNum(v) ==
    LET n == Len(v)
    IN  n * Sum([i \in 1..n |-> (i - 1) * v[i]]) - Sum([i \in 1..n |-> i - 1]) * Sum(v)

OlsDen(v) ==
    LET n == Len(v)
    IN  n * Sum([i \in 1..n |-> (i - 1) * (i - 1)])
            - Sum([i \in 1..n |-> i - 1]) * Sum([i \in 1..n |-> i - 1])

TrendFindingsOf(findings, pid) ==
    SelectSeq(findings, LAMBDA f : f.title = "Trending" /\ f.related_pids = <<pid>>)

\* For each series of at least 20 points: one trend finding exactly when
\* the mean is not zero and |slope / mean * 100| > 1  (slope / mean * 100 =
\* 100 * n * OlsNum / (OlsDen * Sum)), a warning when the magnitude is at
\* least 2 and info otherwise, 'increasing' exactly when the slope is
\* positive; no trend finding for a shorter series.
TrendRule(findings, series) ==
    \A k \in 1..Len(series) :
        LET v     == series[k].vals
            n     == Len(v)
            found == TrendFindingsOf(findings, series[k].pid)
            mag   == 100 * n * Abs(OlsNum(v))
            unit  == OlsDen(v) * Abs(Sum(v))
        IN  IF n >= 20 /\ Sum(v) # 0 /\ mag > unit
            THEN /\ Len(found) = 1
                 /\ found[1].severity = IF mag >= 2 * unit THEN "warning" ELSE "info"
                 /\ found[1].subject[2] = IF OlsNum(v) > 0 THEN "increasing" ELSE "decreasing"
            ELSE found = <<>>

\* The list _analyze_trends hands back inside analyze follows the rule.
TrendStageFollowsRule ==
    corr_locals.exit = "end" => TrendRule(corr_locals.findings, corr_locals.series)

\* C11: for each retained series of at least 20 points the Correlator emits
\* a trend finding exactly when the mean is non-zero and |slope / mean x
\* 100| > 1, a warning when the magnitude is at least 2 and info otherwise,
\* with direction 'increasing' exactly when the slope is positive; shorter
\* series and series of zero mean give no trend finding.
CorrelatorEmitsTrendFindings ==
    corr_locals.exit = "end" => TrendRule(res["Correlator"].findings, corr_locals.series)

\* Inside analyze the trend stage built an info and a warning finding, or
\* passed over a series of zero mean and non-zero slope.
TrendStageCases ==
    /\ corr_locals.exit = "end"
    /\ \/ \E k \in 1..Len(corr_locals.findings) :
              corr_locals.findings[k].title = "Trending" /\ corr_locals.findings[k].severity = "info"
       \/ \E k \in 1..Len(corr_locals.series) :
              /\ Len(corr_locals.series[k].vals) >= 20
              /\ Sum(corr_locals.series[k].vals) = 0
              /\ OlsNum(corr_locals.series[k].vals) # 0

\* ------------------------------------------------------------------------
\* Trouble-code sessions: no samples, a read result with short lists of
\* codes
\* ------------------------------------------------------------------------

\* Longest stored and pending list
MaxCodes == 2

SeqsUpTo(S, n) == UNION {[1..k -> S] : k \in 0..n}

CodePool == {D_P0171, D_P0174, D_P0300}

\* A code too short to name a system, and a critical code
PermanentLists == {<<>>, <<DTCInfo(<<"P", "0">>, "info")>>, <<D_P0300>>}

DTCSessions ==
    {DiagnosticSession(<<>>, DTCReadResult(stored, pending, permanent)) :
        stored \in SeqsUpTo(CodePool, MaxCodes), pending \in SeqsUpTo(CodePool, MaxCodes),
        permanent \in PermanentLists}

DTCInit ==
    /\ session \in DTCSessions
    /\ Idle

\* The FaultDetector alone on the trouble-code sessions
DTCSpec == DTCInit /\ [][FaultDetectorAnalyze]_vars

WithTitle(findings, title) == SelectSeq(findings, LAMBDA f : f.title = title)

\* How many entries of the stored, pending and permanent lists together
\* belong to the system
CodesInSystem(d, system) ==
    Cardinality({k \in 1..Len(all_codes(d)) : DTCInfo_system(all_codes(d)[k]) = system})

SystemsOf(d) == {DTCInfo_system(all_codes(d)[k]) : k \in 1..Len(all_codes(d))}

\* C12: when the session has trouble codes, FaultDetector emits exactly one
\* critical finding listing all critical-severity codes if and only if
\* there is such a code, one warning 'multiple codes' finding for each
\* system with more than one code among the stored, pending and permanent
\* lists together, and one warning 'recurring fault' finding if and only if
\* a code string occurs in both the stored and the pending list.
TroubleCodeFindings ==
    (Returned("FaultDetector") /\ session.dtc_result.present /\ total_codes(session.dtc_result) > 0) =>
        LET d         == session.dtc_result
            findings  == res["FaultDetector"].findings
            critical  == SelectSeq(all_codes(d), LAMBDA c : c.severity = "critical")
            listed    == WithTitle(findings, "Critical DTCs Present")
            multiple  == WithTitle(findings, "Multiple Codes")
            recurring == WithTitle(findings, "Recurring Faults")
        IN  /\ Len(listed) = IF critical # <<>> THEN 1 ELSE 0
            /\ listed # <<>> => /\ listed[1].severity = "critical"
                                /\ listed[1].related_dtcs = CodesOf(critical)
            /\ \A system \in SystemsOf(d) :
                   Len(SelectSeq(multiple, LAMBDA f : f.subject = <<system>>))
                       = IF CodesInSystem(d, system) > 1 THEN 1 ELSE 0
            /\ \A k \in 1..Len(multiple) :
                   /\ multiple[k].severity = "warning"
                   /\ multiple[k].subject[1] \in SystemsOf(d)
            /\ Len(recurring) =
                   IF \E i \in 1..Len(d.stored_codes) : \E j \in 1..Len(d.pending_codes) :
                          d.stored_codes[i].code = d.pending_codes[j].code
                   THEN 1 ELSE 0
            /\ recurring # <<>> => recurring[1].severity = "warning"

\* FaultDetector returned all three kinds of trouble-code finding, for a
\* result with a code that is in the stored and the permanent list but not
\* in the pending list.
AllTroubleCodeFindings ==
    /\ Returned("FaultDetector")
    /\ WithTitle(res["FaultDetector"].findings, "Critical DTCs Present") # <<>>
    /\ WithTitle(res["FaultDetector"].findings, "Multiple Codes") # <<>>
    /\ WithTitle(res["FaultDetector"].findings, "Recurring Faults") # <<>>
    /\ Recurring(session.dtc_result) # RecurringWithPermanent(session.dtc_result)

\* ------------------------------------------------------------------------
\* Coolant sessions: a flat or rising COOLANT_TEMP series ending at or
\* just above 100, with one reading raised so that the series falls right
\* after it
\* ------------------------------------------------------------------------

CoolantLens == CORR_MIN_SAMPLES..(CORR_MIN_SAMPLES + 1 + Extra)

\* Reading i of n: flat at top (rise = 0) or rising by one per reading to
\* top (rise = 1), the reading at position peak raised by 2
CoolantReading(n, top, rise, peak, i) ==
    top - rise * (n - i) + (IF i = peak THEN 2 ELSE 0)

\* lead samples without COOLANT_TEMP, then n samples with it
CoolantSamples(n, top, rise, peak, lead) ==
    Repeat(<< <<"RPM", 1500>> >>, lead)
        \o [i \in 1..n |-> << <<"COOLANT_TEMP", CoolantReading(n, top, rise, peak, i)>> >>]

CoolantSessions ==
    {DiagnosticSession(CoolantSamples(n, top, rise, peak, lead), NoDTC) :
        n \in CoolantLens, top \in {100, 101}, rise \in {0, 1},
        peak \in 0..(CORR_MIN_SAMPLES + 1 + Extra), lead \in {0, 1}}

CoolantInit ==
    /\ session \in CoolantSessions
    /\ Idle

\* The FaultDetector alone on the coolant sessions
CoolantSpec == CoolantInit /\ [][FaultDetectorAnalyze]_vars

\* C13: FaultDetector emits the critical 'Temperature Rising Continuously'
\* finding exactly when the COOLANT_TEMP series has more than 10 readings,
\* each of its last 10 consecutive differences is >= 0 and the latest
\* reading is above 100; an earlier decrease does not prevent it, a flat
\* series above 100 qualifies, 10 or fewer readings never do.
TemperatureRisingFinding ==
    Returned("FaultDetector") =>
        LET temps  == Series(session.pid_samples, "COOLANT_TEMP")
            n      == Len(temps)
            rising == WithTitle(res["FaultDetector"].findings, "Temperature Rising Continuously")
        IN  IF /\ n > 10
               /\ \A k \in 0..9 : temps[n - k] >= temps[n - k - 1]
               /\ temps[n] > 100
            THEN Len(rising) = 1 /\ rising[1].severity = "critical"
            ELSE rising = <<>>

\* The finding was emitted for a series that falls before its last 10
\* differences.
RisingDespiteEarlierDecrease ==
    /\ Returned("FaultDetector")
    /\ WithTitle(res["FaultDetector"].findings, "Temperature Rising Continuously") # <<>>
    /\ \E i \in 2..Len(Series(session.pid_samples, "COOLANT_TEMP")) :
           Series(session.pid_samples, "COOLANT_TEMP")[i] < Series(session.pid_samples, "COOLANT_TEMP")[i - 1]

\* ------------------------------------------------------------------------
\* Stuck-sensor sessions: a steady RPM next to an INTAKE_TEMP that cycles
\* through a few readings close to 20.0
\* ------------------------------------------------------------------------

StuckLens == CORR_MIN_TREND..(CORR_MIN_TREND + 1 + Extra)

\* 19.96, 20.00 and 20.04 round to 20.0; 20.06 and 20.14 to 20.1; 20.16 to
\* 20.2
IntakeLevels == {1996, 2000, 2004, 2006, 2014, 2016}

LevelCycles == UNION {{c \in [1..m -> IntakeLevels] : \A i \in 1..(m - 1) : c[i] < c[i + 1]} : m \in 1..4}

StuckSamples(n, cycle, rpm_step) ==
    [i \in 1..n |-> << <<"INTAKE_TEMP", cycle[(i % Len(cycle)) + 1]>>,
                       <<"RPM", 1500 + rpm_step * (i % 3)>> >>]

StuckSessions ==
    {DiagnosticSession(StuckSamples(n, cycle, rpm_step), NoDTC) :
        n \in StuckLens, cycle \in LevelCycles, rpm_step \in {0, 1}}

StuckInit ==
    /\ session \in StuckSessions
    /\ Idle

\* The FaultDetector alone on the stuck-sensor sessions
StuckSpec == StuckInit /\ [][FaultDetectorAnalyze]_vars

\* The multiple of 0.1 nearest to the reading v of pid, in tenths
NearestTenth(pid, v) ==
    LET scale == ValueScale(pid)
        below == (10 * v) \div scale
    IN  CHOOSE t \in (below - 1)..(below + 1) : 2 * Abs(scale * t - 10 * v) < scale

\* C14: for every parameter present in the session, required by the
\* analyzer or not, FaultDetector emits a warning 'sensor may be stuck'
\* finding for it exactly when its series has more than 20 readings and
\* fewer than 3 distinct values after rounding to 1 decimal place.
StuckSensorFinding ==
    Returned("FaultDetector") =>
        /\ \A pid \in PidsOf(session) :
               LET vals  == Series(session.pid_samples, pid)
                   stuck == SelectSeq(WithTitle(res["FaultDetector"].findings, "Sensor May Be Stuck"),
                                      LAMBDA f : f.subject = <<pid>>)
               IN  IF Len(vals) > 20 /\ Cardinality({NearestTenth(pid, vals[i]) : i \in 1..Len(vals)}) < 3
                   THEN Len(stuck) = 1 /\ stuck[1].severity = "warning"
                   ELSE stuck = <<>>
        /\ \A f \in ToSet(WithTitle(res["FaultDetector"].findings, "Sensor May Be Stuck")) :
               f.subject[1] \in PidsOf(session)

\* The finding was emitted for a parameter the analyzer does not require,
\* whose readings take more than 2 values that round to fewer than 3, and
\* not for another parameter of the same session.
StuckAfterRounding ==
    /\ Returned("FaultDetector")
    /\ \E f \in ToSet(WithTitle(res["FaultDetector"].findings, "Sensor May Be Stuck")) :
           /\ f.subject[1] \notin ToSet(FaultDetector_get_required_pids)
           /\ Cardinality(ToSet(Series(session.pid_samples, f.subject[1]))) > 2
    /\ \E pid \in PidsOf(session) :
           \A f \in ToSet(WithTitle(res["FaultDetector"].findings, "Sensor May Be Stuck")) :
               f.subject # <<pid>>

\* ------------------------------------------------------------------------
\* Fuel-trim sessions: a SHORT_FUEL_TRIM_1 series that is constant, swings
\* between -a and a, or cycles through -a, 0, a
\* ------------------------------------------------------------------------

TrimLens == (CORR_MIN_SAMPLES - 1)..(CORR_MIN_SAMPLES + 1 + Extra)

TrimSwings == 8..12

TrimCycles(a) == {<<a>>, <<-a, a>>, <<-a, 0, a>>}

TrimSamples(n, cycle, lead) ==
    Repeat(<< <<"RPM", 1500>> >>, lead)
        \o [i \in 1..n |-> << <<"SHORT_FUEL_TRIM_1", cycle[(i % Len(cycle)) + 1]>> >>]

TrimSessions ==
    {DiagnosticSession(TrimSamples(n, cycle, lead), NoDTC) :
        n \in TrimLens, cycle \in UNION {TrimCycles(a) : a \in TrimSwings}, lead \in {0, 1}}

TrimInit ==
    /\ session \in TrimSessions
    /\ Idle

\* The FaultDetector alone on the fuel-trim sessions
TrimSpec == TrimInit /\ [][FaultDetectorAnalyze]_vars

\* The population standard deviation of v exceeds c:
\* sqrt(VarN / n^2) > c
PopulationStdevAbove(v, c) == VarN(v) > c * c * Len(v) * Len(v)

\* The sample standard deviation of v (two or more values) exceeds c:
\* sqrt(VarN / (n * (n - 1))) > c
SampleStdevAbove(v, c) == VarN(v) > c * c * Len(v) * (Len(v) - 1)

ErraticFindings == WithTitle(res["FaultDetector"].findings, "Erratic Fuel Trim")

\* C15: FaultDetector emits the info 'Erratic Fuel Trim' finding exactly
\* when the session has at least 10 SHORT_FUEL_TRIM_1 readings and their
\* population standard deviation exceeds 10.
ErraticFuelTrimFinding ==
    Returned("FaultDetector") =>
        LET short_trim == Series(session.pid_samples, "SHORT_FUEL_TRIM_1")
        IN  IF Len(short_trim) >= 10 /\ PopulationStdevAbove(short_trim, 10)
            THEN Len(ErraticFindings) = 1 /\ ErraticFindings[1].severity = "info"
            ELSE ErraticFindings = <<>>

\* C15, amended: FaultDetector emits the info 'Erratic Fuel Trim' finding
\* exactly when the session has more than 10 SHORT_FUEL_TRIM_1 readings and
\* their sample standard deviation exceeds 10.
ErraticFuelTrimAsCoded ==
    Returned("FaultDetector") =>
        LET short_trim == Series(session.pid_samples, "SHORT_FUEL_TRIM_1")
        IN  IF Len(short_trim) > 10 /\ SampleStdevAbove(short_trim, 10)
            THEN Len(ErraticFindings) = 1 /\ ErraticFindings[1].severity = "info"
            ELSE ErraticFindings = <<>>

\* The finding is emitted for more than 10 readings whose population
\* standard deviation does not exceed 10
ErraticWithPopulationStdevAtMostTen ==
    /\ Returned("FaultDetector")
    /\ Len(Series(session.pid_samples, "SHORT_FUEL_TRIM_1")) > 10
    /\ ~PopulationStdevAbove(Series(session.pid_samples, "SHORT_FUEL_TRIM_1"), 10)
    /\ Len(ErraticFindings) = 1

\* ------------------------------------------------------------------------
\* Symptom sessions: idle RPM readings swinging around 800 rpm with a long
\* fuel trim, optionally preceded by a sample off idle that may lack the
\* trim (faults.py:324-341)
\* ------------------------------------------------------------------------
IdleCounts == 5..(6 + Extra)

IdleSwings == {45, 48, 50, 120}

LongTrims == {-18, -12, -11, -10, 0, 10, 11, 12, 18}

IdleSamples(k, swing, trim) ==
    [i \in 1..k |-> << <<"RPM", IF i % 2 = 1 THEN 800 - swing ELSE 800 + swing>>,
                       <<"LONG_FUEL_TRIM_1", trim>> >>]

\* The sample before the idle readings: none, one off idle without the
\* trim, one at exactly 1000 rpm with it
OffIdleLead(kind, trim) ==
    CASE kind = 0 -> <<>>
      [] kind = 1 -> << << <<"RPM", 3000>> >> >>
      [] OTHER    -> << << <<"RPM", 1000>>, <<"LONG_FUEL_TRIM_1", trim>> >> >>

\* Ten idle readings of sample standard deviation 120 with trim 18
ExampleIdleRpm == <<790, 610, 790, 610, 790, 610, 790, 610, 880, 520>>

ExampleSymptomSession ==
    DiagnosticSession([i \in 1..Len(ExampleIdleRpm) |->
        << <<"RPM", ExampleIdleRpm[i]>>, <<"LONG_FUEL_TRIM_1", 18>> >>], NoDTC)

SymptomSessions ==
    {DiagnosticSession(OffIdleLead(kind, trim) \o IdleSamples(k, swing, trim), NoDTC) :
        k \in IdleCounts, swing \in IdleSwings, kind \in 0..2, trim \in LongTrims}
    \cup {ExampleSymptomSession}

SymptomInit ==
    /\ session \in SymptomSessions
    /\ Idle

\* The FaultDetector alone on the symptom sessions
SymptomSpec == SymptomInit /\ [][FaultDetectorAnalyze]_vars

\* The RPM readings below 1000
IdleRpmReadings == SelectSeq(Series(session.pid_samples, "RPM"), LAMBDA r : r < 1000)

\* The sum of LONG_FUEL_TRIM_1 over all samples, a sample without it
\* counting as 0
LongTrimTotal ==
    Sum([i \in 1..Len(session.pid_samples) |->
        IF Has(session.pid_samples[i], "LONG_FUEL_TRIM_1")
        THEN Get(session.pid_samples[i], "LONG_FUEL_TRIM_1") ELSE 0])

RoughIdleHolds == Len(IdleRpmReadings) > 5 /\ SampleStdevAbove(IdleRpmReadings, 50)

LeanRunningHolds == LongTrimTotal > 10 * Len(session.pid_samples)

RichRunningHolds == LongTrimTotal < (-10) * Len(session.pid_samples)

VacuumLeakFindings == WithTitle(res["FaultDetector"].findings, "Vacuum Leak Likely")

InjectorFindings == WithTitle(res["FaultDetector"].findings, "Fuel Injector Issue Likely")

\* C16: FaultDetector emits 'Vacuum Leak Likely' (warning, confidence 0.85)
\* exactly when rough_idle and lean_running hold, and 'Fuel Injector Issue
\* Likely' (warning, confidence 0.70) exactly when rough_idle and
\* rich_running hold, rough_idle being more than 5 RPM readings below 1000
\* of standard deviation above 50 and lean / rich the mean of
\* LONG_FUEL_TRIM_1 over all samples (absent counting 0) above 10 / below
\* -10; the two findings never come together, and the session of trim 18
\* with ten idle readings of standard deviation 120 gets the vacuum-leak
\* finding only.
SymptomFindings ==
    Returned("FaultDetector") =>
        /\ Len(VacuumLeakFindings) = (IF RoughIdleHolds /\ LeanRunningHolds THEN 1 ELSE 0)
        /\ Len(InjectorFindings) = (IF RoughIdleHolds /\ RichRunningHolds THEN 1 ELSE 0)
        /\ \A i \in 1..Len(VacuumLeakFindings) :
               /\ VacuumLeakFindings[i].severity = "warning"
               /\ VacuumLeakFindings[i].confidence = 85
        /\ \A i \in 1..Len(InjectorFindings) :
               /\ InjectorFindings[i].severity = "warning"
               /\ InjectorFindings[i].confidence = 70
        /\ ~(VacuumLeakFindings # <<>> /\ InjectorFindings # <<>>)
        /\ session.pid_samples = ExampleSymptomSession.pid_samples =>
               VacuumLeakFindings # <<>> /\ InjectorFindings = <<>>

\* The example session has been analysed: trim 18, ten idle readings of
\* standard deviation exactly 120, the vacuum-leak finding and no injector
\* finding
VacuumLeakExample ==
    /\ Returned("FaultDetector")
    /\ session.pid_samples = ExampleSymptomSession.pid_samples
    /\ Len(IdleRpmReadings) = 10
    /\ VarN(IdleRpmReadings) = 120 * 120 * 10 * 9
    /\ LongTrimTotal = 18 * Len(session.pid_samples)
    /\ Len(VacuumLeakFindings) = 1
    /\ InjectorFindings = <<>>


\* ------------------------------------------------------------------------
\* Summary sessions: no samples, or idle samples that carry a long and a
\* short fuel trim, with or without a trouble-code result
\* ------------------------------------------------------------------------
SummaryLens == {0} \cup ((CORR_MIN_SAMPLES + 1)..(CORR_MIN_SAMPLES + 1 + Extra))

SummarySamples(n, swing, long, short) ==
    [i \in 1..n |-> << <<"RPM", IF i % 2 = 1 THEN 800 - swing ELSE 800 + swing>>,
                       <<"LONG_FUEL_TRIM_1", long>>,
                       <<"SHORT_FUEL_TRIM_1", IF i % 2 = 1 THEN -short ELSE short>> >>]

SummaryDTCs ==
    {NoDTC} \cup {DTCReadResult(stored, pending, <<>>) :
                     stored \in SeqsUpTo(CodePool, MaxCodes), pending \in {<<>>, <<D_P0171>>}}

SummarySessions ==
    {DiagnosticSession(SummarySamples(n, swing, long, short), dtc) :
        n \in SummaryLens, swing \in {45, 120}, long \in {0, 18}, short \in {8, 12},
        dtc \in SummaryDTCs}

SummaryInit ==
    /\ session \in SummarySessions
    /\ Idle

\* The FaultDetector alone on the summary sessions
SummarySpec == SummaryInit /\ [][FaultDetectorAnalyze]_vars

\* The positions of the findings of the FaultDetector result that have the
\* severity
FaultFindingsOf(severity) ==
    {i \in 1..Len(res["FaultDetector"].findings) :
        res["FaultDetector"].findings[i].severity = severity}

\* C17: the summary of the FaultDetector result is determined by the
\* findings of the result: the CRITICAL text with the number of critical
\* findings when there is one (whatever the warnings), else the
\* potential-issues text with the number of warnings when there is one,
\* else the no-significant-faults text; info findings play no part.
FaultSummaryFromFindings ==
    Returned("FaultDetector") =>
        LET criticals == Cardinality(FaultFindingsOf("critical"))
            warnings  == Cardinality(FaultFindingsOf("warning"))
        IN  res["FaultDetector"].summary =
                IF criticals > 0
                THEN Summary("CRITICAL: critical issue(s) detected requiring immediate attention.", criticals)
                ELSE IF warnings > 0
                THEN Summary("Found potential issue(s) that should be investigated.", warnings)
                ELSE Summary("No significant faults detected. Vehicle appears to be operating normally.", 0)

\* A result with critical, warning and info findings together carries the
\* CRITICAL summary
CriticalSummaryDespiteWarnings ==
    /\ Returned("FaultDetector")
    /\ FaultFindingsOf("critical") # {}
    /\ FaultFindingsOf("warning") # {}
    /\ FaultFindingsOf("info") # {}
    /\ res["FaultDetector"].summary.n = Cardinality(FaultFindingsOf("critical"))


\* ------------------------------------------------------------------------
\* Fuel-economy sessions: samples with a SPEED and a MAF reading around the
\* limits of fuel.py:113-122, optionally preceded by a sample that carries
\* a MAF reading alone, which shifts the MAF series against the SPEED series
\* ------------------------------------------------------------------------
MaxPairs == 3

\* <<speed, maf>>: too slow; slowest kept; no airflow; 95.9 mpg; 100.7 mpg;
\* 0.999 mpg; 1.02 mpg; 23.98 mpg
MpgPairs == {<<4, 1>>, <<5, 1>>, <<60, 0>>, <<20, 1>>, <<21, 1>>, <<10, 48>>, <<10, 47>>, <<60, 12>>}

MpgSamples(pairs, lead) ==
    Repeat(<< <<"MAF", 3>> >>, lead)
        \o [i \in 1..Len(pairs) |-> << <<"SPEED", pairs[i][1]>>, <<"MAF", pairs[i][2]>> >>]

MpgSessions ==
    {DiagnosticSession(MpgSamples(pairs, lead), NoDTC) :
        pairs \in SeqsUpTo(MpgPairs, MaxPairs), lead \in {0, 1}}

MpgInit ==
    /\ session \in MpgSessions
    /\ Idle

\* The FuelEconomyAnalyzer alone on the fuel-economy sessions
MpgSpec == MpgInit /\ [][FuelEconomyAnalyzerAnalyze]_vars

\* The indexes i below the length of the shorter of the MAF and SPEED series
\* whose pair is kept: speed >= 5, MAF >= 0.5 and
\* 1 < speed * 0.621371 * 7.718 / MAF < 100
KeptIndexes ==
    LET maf   == Series(session.pid_samples, "MAF")
        speed == Series(session.pid_samples, "SPEED")
    IN  {i \in 1..Min2(Len(maf), Len(speed)) :
            /\ speed[i] >= 5
            /\ 2 * maf[i] >= 1
            /\ LimbCmp(MPG_FACTOR, speed[i], maf[i]) = 1
            /\ LimbCmp(MPG_FACTOR, speed[i], 100 * maf[i]) = -1}

\* speed[i] / MAF[i], the kept value i without the factor 0.621371 * 7.718
KeptRatio(i) ==
    [num |-> Series(session.pid_samples, "SPEED")[i], den |-> Series(session.pid_samples, "MAF")[i]]

RatioLeq(a, b) == a.num * b.den <= b.num * a.den

RECURSIVE RatioSum(_)
RatioSum(S) ==
    IF S = {} THEN [num |-> 0, den |-> 1]
    ELSE LET i == CHOOSE j \in S : TRUE
             r == RatioSum(S \ {i})
             a == KeptRatio(i)
             n == r.num * a.den + a.num * r.den
             d == r.den * a.den
         IN  [num |-> n \div GCD(n, d), den |-> d \div GCD(n, d)]

FuelMetric(name) ==
    SelectSeq(res["FuelEconomyAnalyzer"].metrics, LAMBDA m : m.name = name)

\* The metric value v is the factor 0.621371 * 7.718 times a ratio
MpgMetricIs(v, ratio) ==
    /\ v.kind = "number" /\ ~v.root /\ v.k = 1
    /\ v.num * ratio.den = ratio.num * v.den

\* C18: the FuelEconomyAnalyzer pairs MAF[i] with SPEED[i] below the length
\* of the shorter series, skips the pair when speed < 5 or MAF < 0.5 and
\* keeps mpg = speed * 0.621371 * 7.718 / MAF when 1 < mpg < 100; the
\* metrics average_mpg, max_mpg and min_mpg are the mean, the largest and
\* the smallest of exactly the kept values, hence min <= average <= max and
\* all three strictly between 1 and 100, and the three are absent when no
\* value is kept.
MpgMetricsOverKeptValues ==
    Returned("FuelEconomyAnalyzer") =>
        IF KeptIndexes = {}
        THEN FuelMetric("average_mpg") = <<>> /\ FuelMetric("max_mpg") = <<>>
                 /\ FuelMetric("min_mpg") = <<>>
        ELSE /\ Len(FuelMetric("average_mpg")) = 1 /\ Len(FuelMetric("max_mpg")) = 1
             /\ Len(FuelMetric("min_mpg")) = 1
             /\ LET avg   == FuelMetric("average_mpg")[1].value
                    max   == FuelMetric("max_mpg")[1].value
                    min   == FuelMetric("min_mpg")[1].value
                    total == RatioSum(KeptIndexes)
                IN  /\ MpgMetricIs(avg, [num |-> total.num, den |-> total.den * Cardinality(KeptIndexes)])
                    /\ \E i \in KeptIndexes : MpgMetricIs(max, KeptRatio(i))
                    /\ \E i \in KeptIndexes : MpgMetricIs(min, KeptRatio(i))
                    /\ \A i \in KeptIndexes : RatioLeq(KeptRatio(i), max) /\ RatioLeq(min, KeptRatio(i))
                    /\ RatioLeq(min, avg) /\ RatioLeq(avg, max)
                    /\ \A v \in {avg, max, min} :
                           /\ LimbCmp(MPG_FACTOR, v.num, v.den) = 1
                           /\ LimbCmp(MPG_FACTOR, v.num, 100 * v.den) = -1

\* Two kept values that differ, a skipped pair and a MAF reading without a
\* speed: the three metrics are there, with min < average < max
MpgMetricsOfMixedSession ==
    /\ Returned("FuelEconomyAnalyzer")
    /\ Cardinality(KeptIndexes) >= 2
    /\ Len(Series(session.pid_samples, "MAF")) > Len(Series(session.pid_samples, "SPEED"))
    /\ Cardinality(KeptIndexes) < Len(Series(session.pid_samples, "SPEED"))
    /\ Len(FuelMetric("average_mpg")) = 1 /\ Len(FuelMetric("max_mpg")) = 1
    /\ Len(FuelMetric("min_mpg")) = 1
    /\ ~RatioLeq(FuelMetric("average_mpg")[1].value, FuelMetric("min_mpg")[1].value)
    /\ ~RatioLeq(FuelMetric("max_mpg")[1].value, FuelMetric("average_mpg")[1].value)


\* ------------------------------------------------------------------------
\* Airflow sessions: one sample off idle followed by idle samples, each with
\* a MAF and an RPM reading; optionally a leading sample with a MAF reading
\* alone (one more MAF than RPM reading), or that and a trailing sample with
\* an RPM reading alone (as many readings, one position apart)
\* ------------------------------------------------------------------------
AirflowLens == 3..(5 + Extra)

OffIdleMafs == {2, 200, 201, 250}

IdleMafs == {8, 10, 11, 12}

AirflowSamples(n, top, idle, shape) ==
    (IF shape # "aligned" THEN << << <<"MAF", 2>> >> >> ELSE <<>>)
        \o [i \in 1..n |-> IF i = 1 THEN << <<"MAF", top>>, <<"RPM", 3000>> >>
                                    ELSE << <<"MAF", idle>>, <<"RPM", 800>> >>]
        \o (IF shape = "shifted" THEN << << <<"RPM", 800>> >> >> ELSE <<>>)

AirflowSessions ==
    {DiagnosticSession(AirflowSamples(n, top, idle, shape), NoDTC) :
        n \in AirflowLens, top \in OffIdleMafs, idle \in IdleMafs,
        shape \in {"aligned", "longer", "shifted"}}

AirflowInit ==
    /\ session \in AirflowSessions
    /\ Idle

\* The FuelEconomyAnalyzer alone on the airflow sessions
AirflowSpec == AirflowInit /\ [][FuelEconomyAnalyzerAnalyze]_vars

HighAirflowFindings == WithTitle(res["FuelEconomyAnalyzer"].findings, "High Airflow Detected")

HighIdleAirflowFindings == WithTitle(res["FuelEconomyAnalyzer"].findings, "High Idle Airflow")

IsInfo(findings) == \A i \in 1..Len(findings) : findings[i].severity = "info"

IsWarning(findings) == \A i \in 1..Len(findings) : findings[i].severity = "warning"

\* The MAF readings of the samples whose RPM reading is below 1000
MafOfIdleSamples ==
    Series(SelectSeq(session.pid_samples,
                     LAMBDA sample : Has(sample, "RPM") /\ Get(sample, "RPM") < 1000), "MAF")

\* Every sample carries both a MAF and an RPM reading or neither
MafWithRpm ==
    \A i \in 1..Len(session.pid_samples) :
        Has(session.pid_samples[i], "MAF") <=> Has(session.pid_samples[i], "RPM")

\* C19: for every session with at least one MAF reading the
\* FuelEconomyAnalyzer emits the info 'high airflow' finding whenever the
\* largest MAF reading exceeds 200, and the warning 'high idle airflow'
\* finding whenever the mean MAF over the samples whose RPM is below 1000
\* exceeds 10.
AirflowFindingsFromOneReading ==
    Returned("FuelEconomyAnalyzer") /\ Series(session.pid_samples, "MAF") # <<>> =>
        /\ MaxOf(Series(session.pid_samples, "MAF")) > 200 =>
               HighAirflowFindings # <<>> /\ IsInfo(HighAirflowFindings)
        /\ MafOfIdleSamples # <<>> /\ Sum(MafOfIdleSamples) > 10 * Len(MafOfIdleSamples) =>
               HighIdleAirflowFindings # <<>> /\ IsWarning(HighIdleAirflowFindings)

\* C19, amended: for every session with at least 5 MAF readings the
\* FuelEconomyAnalyzer emits the info 'high airflow' finding whenever the
\* largest MAF reading exceeds 200 and, when MAF and RPM are read in the
\* same samples, the warning 'high idle airflow' finding whenever the mean
\* MAF over the samples whose RPM is below 1000 exceeds 10.
AirflowFindingsFromFiveReadings ==
    Returned("FuelEconomyAnalyzer") /\ Len(Series(session.pid_samples, "MAF")) >= 5 =>
        /\ MaxOf(Series(session.pid_samples, "MAF")) > 200 =>
               HighAirflowFindings # <<>> /\ IsInfo(HighAirflowFindings)
        /\ (/\ MafWithRpm
            /\ MafOfIdleSamples # <<>>
            /\ Sum(MafOfIdleSamples) > 10 * Len(MafOfIdleSamples)) =>
               HighIdleAirflowFindings # <<>> /\ IsWarning(HighIdleAirflowFindings)

\* Five or more MAF readings with an RPM reading each, the largest above
\* 200 and the idle mean above 10: both findings are there
BothAirflowFindings ==
    /\ Returned("FuelEconomyAnalyzer")
    /\ Len(Series(session.pid_samples, "MAF")) >= 5
    /\ MafWithRpm
    /\ MaxOf(Series(session.pid_samples, "MAF")) > 200
    /\ Sum(MafOfIdleSamples) > 10 * Len(MafOfIdleSamples)
    /\ Len(HighAirflowFindings) = 1
    /\ Len(HighIdleAirflowFindings) = 1


\* ------------------------------------------------------------------------
\* RPM sessions: idle readings swinging around 700 rpm, optionally followed
\* by a reading off idle, and the two sessions of ten idle readings of
\* sample standard deviation 150 and 80
\* ------------------------------------------------------------------------
RpmLens == 3..(5 + Extra)

RpmSwings == {50, 85, 90, 150, 151, 160}

RpmTails == {<<>>, <<1200>>, <<3000>>}

RpmSamples(readings) == [i \in 1..Len(readings) |-> << <<"RPM", readings[i]>> >>]

Stdev150 == <<925, 475, 925, 475, 700, 700, 700, 700, 700, 700>>

Stdev80 == <<820, 580, 820, 580, 700, 700, 700, 700, 700, 700>>

RpmSessions ==
    {DiagnosticSession(RpmSamples([i \in 1..n |-> IF i % 2 = 1 THEN 700 - swing ELSE 700 + swing] \o tail), NoDTC) :
        n \in RpmLens, swing \in RpmSwings, tail \in RpmTails}
    \cup {DiagnosticSession(RpmSamples(Stdev150), NoDTC), DiagnosticSession(RpmSamples(Stdev80), NoDTC)}

RpmInit ==
    /\ session \in RpmSessions
    /\ Idle

\* The PerformanceAnalyzer alone on the RPM sessions
RpmSpec == RpmInit /\ [][PerformanceAnalyzerAnalyze]_vars

RoughIdleFindings == WithTitle(res["PerformanceAnalyzer"].findings, "Rough Idle Detected")

FluctuationFindings == WithTitle(res["PerformanceAnalyzer"].findings, "RPM Fluctuations Detected")

\* The RPM readings below 1200
ReadingsBelow1200 == SelectSeq(Series(session.pid_samples, "RPM"), LAMBDA r : r < 1200)

\* More than 3 RPM readings below 1200 whose standard deviation exceeds 100
RoughIdleCase == Len(ReadingsBelow1200) > 3 /\ SampleStdevAbove(ReadingsBelow1200, 100)

\* More than 2 differences between adjacent RPM readings exceed 300 in
\* magnitude
FluctuationCase ==
    LET rpm == Series(session.pid_samples, "RPM")
    IN  Cardinality({i \in 2..Len(rpm) : rpm[i] - rpm[i - 1] > 300 \/ rpm[i - 1] - rpm[i] > 300}) > 2

IsRoughIdleWarning(findings) ==
    Len(findings) = 1 /\ findings[1].severity = "warning" /\ findings[1].confidence = 80

\* C20: the PerformanceAnalyzer emits the warning 'rough idle' finding
\* (confidence 0.8) exactly when more than 3 RPM readings are below 1200 and
\* their standard deviation exceeds 100, and the warning 'RPM fluctuations'
\* finding exactly when more than 2 differences between adjacent RPM
\* readings exceed 300 in magnitude; ten idle readings of standard
\* deviation 150 trigger rough idle, ten of standard deviation 80 do not.
RpmStabilityFindings ==
    Returned("PerformanceAnalyzer") =>
        /\ IF RoughIdleCase THEN IsRoughIdleWarning(RoughIdleFindings) ELSE RoughIdleFindings = <<>>
        /\ IF FluctuationCase
           THEN Len(FluctuationFindings) = 1 /\ IsWarning(FluctuationFindings)
           ELSE FluctuationFindings = <<>>
        /\ Series(session.pid_samples, "RPM") = Stdev150 => RoughIdleFindings # <<>>
        /\ Series(session.pid_samples, "RPM") = Stdev80 => RoughIdleFindings = <<>>

\* C20, amended: the same, each finding requiring also that the session has
\* at least 5 RPM readings.
RpmStabilityFindingsFromFiveReadings ==
    Returned("PerformanceAnalyzer") =>
        LET enough == Len(Series(session.pid_samples, "RPM")) >= 5
        IN  /\ IF enough /\ RoughIdleCase
               THEN IsRoughIdleWarning(RoughIdleFindings) ELSE RoughIdleFindings = <<>>
            /\ IF enough /\ FluctuationCase
               THEN Len(FluctuationFindings) = 1 /\ IsWarning(FluctuationFindings)
               ELSE FluctuationFindings = <<>>
            /\ Series(session.pid_samples, "RPM") = Stdev150 => RoughIdleFindings # <<>>
            /\ Series(session.pid_samples, "RPM") = Stdev80 => RoughIdleFindings = <<>>

\* Exactly five RPM readings, four of them below 1200: rough idle and RPM
\* fluctuations are both reported
BothRpmFindingsWithFiveReadings ==
    /\ Returned("PerformanceAnalyzer")
    /\ Len(Series(session.pid_samples, "RPM")) = 5
    /\ Len(ReadingsBelow1200) = 4
    /\ IsRoughIdleWarning(RoughIdleFindings)
    /\ Len(FluctuationFindings) = 1

\* ------------------------------------------------------------------------
\* Throttle sessions: samples with a THROTTLE_POS and an RPM reading; the
\* throttle sits at 10 and steps up at the chosen positions, the RPM is flat
\* or climbs by a fixed step; optionally one more sample with an RPM reading
\* alone (performance.py:203-221)
\* ------------------------------------------------------------------------
ThrottleLens == 9..(10 + Extra)

ThrottleRises == SUBSET {2, 4, 6, 8}

ThrottleSamples(n, rises, height, rpm_step, tail) ==
    [k \in 1..n |-> << <<"THROTTLE_POS", IF k \in rises THEN 10 + height ELSE 10>>,
                       <<"RPM", 1000 + rpm_step * k>> >>]
        \o Repeat(<< <<"RPM", 1000 + rpm_step * (n + 1)>> >>, tail)

ThrottleSessions ==
    {DiagnosticSession(ThrottleSamples(n, rises, height, rpm_step, tail), NoDTC) :
        n \in ThrottleLens, rises \in ThrottleRises, height \in {10, 11},
        rpm_step \in {0, 49, 50}, tail \in {0, 1}}

ThrottleInit ==
    /\ session \in ThrottleSessions
    /\ Idle

\* The PerformanceAnalyzer alone on the throttle sessions
ThrottleSpec == ThrottleInit /\ [][PerformanceAnalyzerAnalyze]_vars

ThrottleLagFindings == WithTitle(res["PerformanceAnalyzer"].findings, "Throttle Response Lag")

\* The positions at which the throttle rose by more than 10 from the
\* reading before
ThrottleRoseAt ==
    LET throttle == Series(session.pid_samples, "THROTTLE_POS")
    IN  {k \in 2..Len(throttle) : throttle[k] - throttle[k - 1] > 10}

\* The rises, among those at most `last`, that the RPM two readings later
\* answers with less than 100
SlowRisesUpTo(last) ==
    LET rpm == Series(session.pid_samples, "RPM")
    IN  {k \in ThrottleRoseAt : k <= last /\ rpm[k + 2] - rpm[k] < 100}

EnoughThrottleData ==
    /\ Len(Series(session.pid_samples, "THROTTLE_POS")) >= 10
    /\ Len(Series(session.pid_samples, "RPM")) >= 10

\* C21: with at least 10 throttle and at least 10 RPM readings the
\* PerformanceAnalyzer counts a slow response for every position at which
\* the throttle rose by more than 10 exactly when the RPM series has a
\* reading two positions later and that reading is less than 100 above the
\* one at the position, and it emits the warning 'throttle response lag'
\* finding exactly when the count exceeds 2.
ThrottleLagFinding ==
    Returned("PerformanceAnalyzer") /\ EnoughThrottleData =>
        LET slow == SlowRisesUpTo(Len(Series(session.pid_samples, "RPM")) - 2)
        IN  IF Cardinality(slow) > 2
            THEN Len(ThrottleLagFindings) = 1 /\ IsWarning(ThrottleLagFindings)
            ELSE ThrottleLagFindings = <<>>

\* What holds of the code: a rise counts only when the RPM series has a
\* reading three positions later
ThrottleLagWithThreeReadingsAfter ==
    Returned("PerformanceAnalyzer") /\ EnoughThrottleData =>
        LET slow == SlowRisesUpTo(Len(Series(session.pid_samples, "RPM")) - 3)
        IN  IF Cardinality(slow) > 2
            THEN Len(ThrottleLagFindings) = 1 /\ IsWarning(ThrottleLagFindings)
            ELSE ThrottleLagFindings = <<>>

\* ------------------------------------------------------------------------
\* Warm-up sessions: COOLANT_TEMP readings that sit 5 below their highest
\* value, which comes first, last or everywhere (performance.py:242-297)
\* ------------------------------------------------------------------------
WarmupLens == {1, 2} \cup (20..(21 + Extra))

WarmupPeaks == {60, 74, 75, 100, 101, 110, 111}

WarmupSamples(n, peak, at) ==
    [i \in 1..n |-> << <<"COOLANT_TEMP",
        IF at = "all" \/ (at = "first" /\ i = 1) \/ (at = "last" /\ i = n) THEN peak ELSE peak - 5>> >>]

WarmupSessions ==
    {DiagnosticSession(WarmupSamples(n, peak, at), NoDTC) :
        n \in WarmupLens, peak \in WarmupPeaks, at \in {"first", "last", "all"}}

WarmupInit ==
    /\ session \in WarmupSessions
    /\ Idle

\* The PerformanceAnalyzer alone on the warm-up sessions
WarmupSpec == WarmupInit /\ [][PerformanceAnalyzerAnalyze]_vars

ElevatedCoolantFindings ==
    WithTitle(res["PerformanceAnalyzer"].findings, "Elevated Coolant Temperature")

WarmCoolantFindings ==
    WithTitle(res["PerformanceAnalyzer"].findings, "Warm Coolant Temperature")

ColdEngineFindings ==
    WithTitle(res["PerformanceAnalyzer"].findings, "Engine Not Reaching Temperature")

\* Some COOLANT_TEMP reading exceeds c
SomeCoolantAbove(c) ==
    \E i \in 1..Len(session.pid_samples) :
        Has(session.pid_samples[i], "COOLANT_TEMP") /\ Get(session.pid_samples[i], "COOLANT_TEMP") > c

\* Every COOLANT_TEMP reading is below c
AllCoolantBelow(c) ==
    \A i \in 1..Len(session.pid_samples) :
        Has(session.pid_samples[i], "COOLANT_TEMP") => Get(session.pid_samples[i], "COOLANT_TEMP") < c

\* C22: for the COOLANT_TEMP series the PerformanceAnalyzer emits the
\* critical 'elevated coolant temperature' finding exactly when the maximum
\* exceeds 110, the warning 'warm coolant' finding exactly when the maximum
\* exceeds 100 but not 110, and the warning 'not reaching temperature'
\* finding exactly when the maximum is below 75 and there are more than 20
\* readings; at most one of the three is emitted, and none when the maximum
\* lies in [75, 100].
CoolantTemperatureFindings ==
    Returned("PerformanceAnalyzer") /\ Series(session.pid_samples, "COOLANT_TEMP") # <<>> =>
        LET n == Len(Series(session.pid_samples, "COOLANT_TEMP"))
        IN  /\ IF SomeCoolantAbove(110)
               THEN Len(ElevatedCoolantFindings) = 1 /\ ElevatedCoolantFindings[1].severity = "critical"
               ELSE ElevatedCoolantFindings = <<>>
            /\ IF SomeCoolantAbove(100) /\ ~SomeCoolantAbove(110)
               THEN Len(WarmCoolantFindings) = 1 /\ IsWarning(WarmCoolantFindings)
               ELSE WarmCoolantFindings = <<>>
            /\ IF AllCoolantBelow(75) /\ n > 20
               THEN Len(ColdEngineFindings) = 1 /\ IsWarning(ColdEngineFindings)
               ELSE ColdEngineFindings = <<>>
            /\ Len(ElevatedCoolantFindings) + Len(WarmCoolantFindings) + Len(ColdEngineFindings) <= 1
            /\ ~SomeCoolantAbove(100) /\ ~AllCoolantBelow(75) =>
                   ElevatedCoolantFindings \o WarmCoolantFindings \o ColdEngineFindings = <<>>

\* A series that ends above 110 after readings between 100 and 110: the
\* critical finding alone
ElevatedCoolantAlone ==
    /\ Returned("PerformanceAnalyzer")
    /\ SomeCoolantAbove(110)
    /\ Len(Series(session.pid_samples, "COOLANT_TEMP")) > 20
    /\ Series(session.pid_samples, "COOLANT_TEMP")[1] <= 110
    /\ Len(ElevatedCoolantFindings) = 1
    /\ WarmCoolantFindings = <<>>
    /\ ColdEngineFindings = <<>>

\* ------------------------------------------------------------------------
\* Misfire sessions: no sample or one, and a trouble-code result whose codes
\* begin with P030, nearly do (P0310, P03) or do not (performance.py:299-322)
\* ------------------------------------------------------------------------
MisfirePool ==
    {D_P0300, DTCInfo(P0301, "critical"), D_P0171,
     DTCInfo(<<"P", "0", "3", "1", "0">>, "warning"), DTCInfo(<<"P", "0", "3">>, "info")}

MisfireDTCs ==
    {NoDTC} \cup {DTCReadResult(stored, pending, permanent) :
                     stored \in SeqsUpTo(MisfirePool, MaxCodes),
                     pending \in {<<>>, <<D_P0300>>, <<DTCInfo(P0301, "critical")>>},
                     permanent \in {<<>>, <<D_P0300>>, <<DTCInfo(<<"P", "0", "3">>, "info")>>}}

MisfireSessions ==
    {DiagnosticSession(samples, dtc) :
        samples \in {<<>>, << << <<"RPM", 800>> >> >>}, dtc \in MisfireDTCs}

MisfireInit ==
    /\ session \in MisfireSessions
    /\ Idle

\* The PerformanceAnalyzer alone on the misfire sessions
MisfireSpec == MisfireInit /\ [][PerformanceAnalyzerAnalyze]_vars

MisfireFindings == WithTitle(res["PerformanceAnalyzer"].findings, "Misfire Codes Present")

\* The codes of the list that begin with P030, in the order of the list
P030CodesOf(list) ==
    LET at == {i \in 1..Len(list) :
                  Len(list[i].code) >= 4 /\ list[i].code[1] = "P" /\ list[i].code[2] = "0"
                      /\ list[i].code[3] = "3" /\ list[i].code[4] = "0"}
    IN  [k \in 1..Cardinality(at) |->
            list[CHOOSE i \in at : Cardinality({j \in at : j < i}) = k - 1].code]

\* The misfire codes of the session: stored, then pending, then permanent
SessionMisfireCodes ==
    IF session.dtc_result.present
    THEN P030CodesOf(session.dtc_result.stored_codes) \o P030CodesOf(session.dtc_result.pending_codes)
             \o P030CodesOf(session.dtc_result.permanent_codes)
    ELSE <<>>

MisfireFindingListsCodes ==
    IF SessionMisfireCodes # <<>>
    THEN /\ Len(MisfireFindings) = 1
         /\ MisfireFindings[1].severity = "critical"
         /\ MisfireFindings[1].related_dtcs = SessionMisfireCodes
    ELSE MisfireFindings = <<>>

\* C23: for every session whose stored, pending or permanent trouble codes
\* include a code that starts with P030 the PerformanceAnalyzer result
\* contains the critical 'misfire codes present' finding listing exactly
\* those codes, and for every session without such a code the finding is
\* absent.
MisfireFindingForEverySession ==
    Returned("PerformanceAnalyzer") => MisfireFindingListsCodes

\* C23, amended: the same for every session that has at least one PID
\* sample; a session without samples gets the single 'No Data' finding
\* whatever its trouble codes.
MisfireFindingWithSamples ==
    Returned("PerformanceAnalyzer") =>
        IF session.pid_samples # <<>> THEN MisfireFindingListsCodes
        ELSE /\ Len(res["PerformanceAnalyzer"].findings) = 1
             /\ res["PerformanceAnalyzer"].findings[1].title = "No Data"

\* A session with a sample whose only misfire codes are pending and
\* permanent ones, next to stored codes P0310 or P03 that do not count
MisfireAmongPendingAndPermanent ==
    /\ Returned("PerformanceAnalyzer")
    /\ session.pid_samples # <<>>
    /\ session.dtc_result.present
    /\ session.dtc_result.stored_codes # <<>>
    /\ P030CodesOf(session.dtc_result.stored_codes) = <<>>
    /\ Len(SessionMisfireCodes) = 2
    /\ Len(MisfireFindings) = 1
    /\ MisfireFindings[1].related_dtcs = SessionMisfireCodes

\* ------------------------------------------------------------------------
\* The live collector: one caller thread and the stream-loop threads it
\* starts
\* ------------------------------------------------------------------------
LiveInit ==
    /\ session = DiagnosticSession(<<>>, NoDTC)
    /\ Idle

LoopAt(t, pc) == collector.loops[t].pc = pc

CallerAt(pc) == collector.caller.pc = pc

StreamLoopWhile ==
    \E t \in Threads :
        LoopAt(t, "check") /\ collector' = stream_loop_while(collector, t) /\ UNCHANGED <<analysis, manager, slogger>>

StreamLoopRead ==
    \E t \in Threads, some \in BOOLEAN :
        LoopAt(t, "read") /\ collector' = stream_loop_read(collector, t, some) /\ UNCHANGED <<analysis, manager, slogger>>

StreamLoopPut ==
    \E t \in Threads :
        LoopAt(t, "put") /\ collector' = stream_loop_put(collector, t) /\ UNCHANGED <<analysis, manager, slogger>>

StreamLoopDiscard ==
    \E t \in Threads :
        LoopAt(t, "discard") /\ collector' = stream_loop_discard(collector, t) /\ UNCHANGED <<analysis, manager, slogger>>

StreamLoopReput ==
    \E t \in Threads :
        LoopAt(t, "reput") /\ collector' = stream_loop_reput(collector, t) /\ UNCHANGED <<analysis, manager, slogger>>

StreamLoopNotify ==
    \E t \in Threads :
        LoopAt(t, "notify") /\ collector' = stream_loop_notify(collector, t) /\ UNCHANGED <<analysis, manager, slogger>>

StreamLoopLoad ==
    \E t \in Threads :
        LoopAt(t, "load") /\ collector' = stream_loop_load(collector, t) /\ UNCHANGED <<analysis, manager, slogger>>

StreamLoopStore ==
    \E t \in Threads :
        LoopAt(t, "store") /\ collector' = stream_loop_store(collector, t) /\ UNCHANGED <<analysis, manager, slogger>>

StreamLoopSleep ==
    \E t \in Threads :
        LoopAt(t, "sleep") /\ collector' = stream_loop_sleep(collector, t) /\ UNCHANGED <<analysis, manager, slogger>>

\* start_streaming, as long as there is a thread left to create
StartStreaming ==
    /\ CallerAt("idle")
    /\ \E t \in Threads : LoopAt(t, "unborn")
    /\ collector' = start_streaming(collector)
    /\ UNCHANGED <<analysis, manager, slogger>>

StartStreamingThread ==
    /\ CallerAt("starting")
    /\ LET t == CHOOSE u \in Threads : LoopAt(u, "unborn") /\ \A v \in Threads : LoopAt(v, "unborn") => u <= v
       IN  collector' = start_streaming_thread(collector, t)
    /\ UNCHANGED <<analysis, manager, slogger>>

StopStreaming ==
    /\ CallerAt("idle")
    /\ collector' = stop_streaming(collector)
    /\ UNCHANGED <<analysis, manager, slogger>>

\* join returns when the thread has ended, or after 2 seconds while the
\* loop is still inside a read, a callback or its sleep
StopStreamingJoined ==
    /\ CallerAt("joining")
    /\ ~Alive(collector, collector.thread) \/ Blocked(collector, collector.thread)
    /\ collector' = stop_streaming_joined(collector)
    /\ UNCHANGED <<analysis, manager, slogger>>

GetBufferedSamples ==
    \E max_samples \in 1..MaxBuffer :
        /\ CallerAt("idle")
        /\ collector' = get_buffered_samples(collector, max_samples)
        /\ UNCHANGED <<analysis, manager, slogger>>

GetBufferedSamplesTurn ==
    /\ CallerAt("getting")
    /\ collector' = get_buffered_samples_turn(collector)
    /\ UNCHANGED <<analysis, manager, slogger>>

ClearBuffer ==
    /\ CallerAt("idle")
    /\ collector' = clear_buffer(collector)
    /\ UNCHANGED <<analysis, manager, slogger>>

ClearBufferTurn ==
    /\ CallerAt("clearing")
    /\ collector' = clear_buffer_turn(collector)
    /\ UNCHANGED <<analysis, manager, slogger>>

LiveNext ==
    \/ StreamLoopWhile
    \/ StreamLoopRead
    \/ StreamLoopPut
    \/ StreamLoopDiscard
    \/ StreamLoopReput
    \/ StreamLoopNotify
    \/ StreamLoopLoad
    \/ StreamLoopStore
    \/ StreamLoopSleep
    \/ StartStreaming
    \/ StartStreamingThread
    \/ StopStreaming
    \/ StopStreamingJoined
    \/ GetBufferedSamples
    \/ GetBufferedSamplesTurn
    \/ ClearBuffer
    \/ ClearBufferTurn

LiveSpec == LiveInit /\ [][LiveNext]_vars

\* The samples whose loop has gone past the puts of live.py:149-157
PastThePut ==
    {s \in 1..collector.produced :
        \A t \in Threads : collector.loops[t].sample = s =>
            collector.loops[t].pc \notin {"put", "discard", "reput"}}

Increasing(seq) == \A i, j \in 1..Len(seq) : i < j => seq[i] < seq[j]

\* C24: the buffer never holds more samples than its capacity and every
\* sample the stream loop produces is enqueued, the oldest buffered sample
\* making room when the buffer is full, so the buffer holds samples in
\* production order and get_buffered_samples returns them oldest first,
\* also while get_buffered_samples or clear_buffer run beside the loop; and
\* sample_count counts only samples that were enqueued.
BufferKeepsEverySample ==
    /\ Len(collector.buffer) <= MaxBuffer
    /\ PastThePut \subseteq collector.enqueued
    /\ Increasing(collector.buffer)
    /\ Increasing(collector.caller.samples)
    /\ collector.sample_count <= collector.queued

\* What holds beside one stream loop: the capacity, and the order of the
\* buffer and of the samples get_buffered_samples returns
BufferBoundedAndOrdered ==
    (\A t \in Threads : t > 1 => LoopAt(t, "unborn")) =>
        /\ Len(collector.buffer) <= MaxBuffer
        /\ Increasing(collector.buffer)
        /\ Increasing(collector.caller.samples)

\* One stream loop only: a sample went past the puts without being enqueued
LostBesideOneLoop ==
    /\ \A t \in Threads : t > 1 => LoopAt(t, "unborn")
    /\ ~(PastThePut \subseteq collector.enqueued)

\* One stream loop only: sample_count exceeds the number of samples enqueued
CountedBesideOneLoop ==
    /\ \A t \in Threads : t > 1 => LoopAt(t, "unborn")
    /\ collector.sample_count > collector.queued

\* A stream loop that is still running although stop_streaming has returned
\* since it was started: the collector no longer refers to its thread
Previous(t) == Alive(collector, t) /\ collector.thread # t

AtMostOneStreamLoop == Cardinality({t \in Threads : Alive(collector, t)}) <= 1

\* A step of a previous loop leaves the buffer, the callbacks and
\* sample_count alone
PreviousLoopIsSilent ==
    \A t \in Threads :
        Previous(t) /\ collector.loops'[t] # collector.loops[t] =>
            /\ collector.buffer' = collector.buffer
            /\ collector.notified' = collector.notified
            /\ collector.sample_count' = collector.sample_count

\* C25: across any sequence of start_streaming and stop_streaming calls at
\* most one stream-loop thread is collecting at any time, and once
\* stop_streaming has returned the previous loop adds no sample to the
\* buffer, calls no callback and does not change sample_count, also when
\* start_streaming is called again right away.
SingleStreamLoop == [](AtMostOneStreamLoop) /\ [][PreviousLoopIsSilent]_vars

\* What holds: start_streaming while streaming changes nothing, and no
\* second loop is started while the collector is streaming
StartWhileStreamingIsNoOp ==
    [][collector.running /\ collector.caller.pc = "idle"
           => collector'.caller.pc # "starting"]_vars

\* Two stream loops are collecting
TwoStreamLoops == Cardinality({t \in Threads : Alive(collector, t)}) = 2

\* stop_streaming has returned and the collector is not streaming, yet the
\* loop is about to put a sample into the buffer
PutAfterStop ==
    /\ ~collector.running
    /\ collector.caller.pc = "idle"
    /\ \E t \in Threads : Previous(t) /\ LoopAt(t, "put")

\* ------------------------------------------------------------------------
\* The connection manager: a caller that connects, disconnects and
\* reconnects
\* ------------------------------------------------------------------------
ManagerInit ==
    /\ session = DiagnosticSession(<<>>, NoDTC)
    /\ Idle

AfterCall(m, method) == [m EXCEPT !.last = method, !.calls = @ + 1]

Connect ==
    /\ manager.calls < MaxCalls
    /\ \E port \in Ports \cup {NoPort} :
           \E found \in Detections(port), outcome \in OBDOutcomes,
              protocol_name \in ProtocolNames :
               manager' = AfterCall(ConnectionManager_connect(manager, port, found, outcome,
                                                           protocol_name), "connect")
    /\ UNCHANGED <<analysis, collector, slogger>>

Disconnect ==
    /\ manager.calls < MaxCalls
    /\ manager' = AfterCall(ConnectionManager_disconnect(manager), "disconnect")
    /\ UNCHANGED <<analysis, collector, slogger>>

Reconnect ==
    /\ manager.calls < MaxCalls
    /\ LET port == IF manager.adapter_info.present THEN manager.adapter_info.port
                   ELSE NoPort
       IN  \E found \in Detections(port), outcome \in OBDOutcomes,
              protocol_name \in ProtocolNames :
               manager' = AfterCall(ConnectionManager_reconnect(manager, found, outcome,
                                                             protocol_name), "reconnect")
    /\ UNCHANGED <<analysis, collector, slogger>>

ManagerNext == Connect \/ Disconnect \/ Reconnect

ManagerSpec == ManagerInit /\ [][ManagerNext]_vars

\* The last call returned a ConnectionResult
ResultReturned == manager.last \in {"connect", "reconnect"}

\* C26: after connect() returns success, the manager's adapter_info and the
\* adapter_info of the returned ConnectionResult are the adapter
\* information determined for the port that was connected, also when
\* connect() was called while a previous connection was open, and then the
\* old connection is closed before the new one is opened.
AdapterInfoOfConnectedPort ==
    ResultReturned /\ manager.result.success =>
        /\ manager.adapter_info = manager.determined
        /\ manager.result.adapter_info = manager.determined
        /\ manager.determined.present => manager.determined.port = manager.connection.port
        /\ manager.live = 1

\* What holds: the same when no connection was held at the call
AdapterInfoOfFirstConnection ==
    ResultReturned /\ manager.result.success /\ ~manager.replaced =>
        /\ manager.adapter_info = manager.determined
        /\ manager.result.adapter_info = manager.determined
        /\ manager.determined.present => manager.determined.port = manager.connection.port
        /\ manager.live = 1

\* What holds: a connect that found a connection held closes it, and
\* reports no adapter information
NoAdapterInfoAfterReplacing ==
    ResultReturned /\ manager.result.success /\ manager.replaced =>
        /\ manager.adapter_info = NoAdapter
        /\ manager.result.adapter_info = NoAdapter
        /\ manager.live = 1

\* A successful connect over an open connection whose port has adapter
\* information
ReplacedWithKnownAdapter ==
    /\ ResultReturned
    /\ manager.result.success
    /\ manager.replaced
    /\ manager.determined.present

\* C27: after any sequence of connect, disconnect and reconnect calls the
\* reported state agrees with the held connection: in DISCONNECTED or ERROR
\* is_connected is false, in CONNECTED or CAR_CONNECTED a connection is
\* held, the state of a returned ConnectionResult is the manager's state,
\* and success is true exactly when that state is CONNECTED or
\* CAR_CONNECTED.
StateAgreesWithConnection ==
    /\ manager.state \in {"disconnected", "error"} => ~ConnectionManager_is_connected(manager)
    /\ manager.state \in {"connected", "car_connected"} => manager.connection.held
    /\ ResultReturned =>
        /\ manager.result.state = manager.state
        /\ manager.result.success <=> manager.result.state \in {"connected", "car_connected"}

\* What holds: everything but the ERROR state of a connect that returned
\* before closing the old connection
StateAgreesUnlessDetectionFailed ==
    /\ manager.state = "disconnected" => ~manager.connection.held
    /\ manager.state = "error" /\ ConnectionManager_is_connected(manager) =>
           manager.last = "connect" /\ manager.result.message = "No OBD2 adapter found"
    /\ manager.state \in {"connected", "car_connected"} =>
           ConnectionManager_is_connected(manager)
    /\ manager.state # "connecting"
    /\ ResultReturned =>
        /\ manager.result.state = manager.state
        /\ manager.result.success <=> manager.result.state \in {"connected", "car_connected"}

\* The manager reports ERROR and is connected to the vehicle
ErrorWhileCarConnected ==
    /\ manager.state = "error"
    /\ ConnectionManager_is_car_connected(manager)

\* ------------------------------------------------------------------------
\* The session logger: a caller that starts sessions, logs samples and
\* ends sessions, with either file format
\* ------------------------------------------------------------------------
LoggerInit ==
    /\ session = DiagnosticSession(<<>>, NoDTC)
    /\ res = [a \in Analyzers |-> NoResult]
    /\ corr_locals = NoLocals
    /\ hrd = [a \in Analyzers |-> Unset]
    /\ probe = NoProbe
    /\ collector = NewCollector
    /\ manager = NewManager
    /\ slogger \in {NewLogger(format) : format \in Formats}

SessionsStarted == Cardinality({s \in LoggedSessions : slogger.sessions[s].started})

StartSession ==
    /\ SessionsStarted < MaxSessions
    /\ slogger' = [SessionLogger_start_session(slogger, SessionsStarted + 1) EXCEPT
                      !.last = "start_session"]
    /\ UNCHANGED <<analysis, collector, manager>>

LogSample ==
    /\ Len(slogger.history) < MaxLogged
    /\ LET sample == Len(slogger.history) + 1
       IN  slogger' = [SessionLogger_log_sample(slogger, sample) EXCEPT
                          !.last = "log_sample",
                          !.history = Append(@, [session |-> slogger.current_session,
                                                 sample |-> sample])]
    /\ UNCHANGED <<analysis, collector, manager>>

EndSession ==
    /\ slogger' = [SessionLogger_end_session(slogger) EXCEPT !.last = "end_session"]
    /\ UNCHANGED <<analysis, collector, manager>>

LoggerNext == StartSession \/ LogSample \/ EndSession

LoggerSpec == LoggerInit /\ [][LoggerNext]_vars

\* The samples logged while session s was active, in logging order
LoggedIn(s) ==
    LET calls == SelectSeq(slogger.history, LAMBDA h : h.session = s)
    IN  [i \in 1..Len(calls) |-> calls[i].sample]

ActiveSessions ==
    {s \in LoggedSessions : slogger.sessions[s].started /\ ~slogger.sessions[s].ended}

\* Every session object holds the samples logged while it was active, at
\* most one is active, and every ended session is saved in its file
SessionsHoldTheirSamples ==
    /\ ActiveSessions = IF SessionLogger_is_logging(slogger)
                        THEN {slogger.current_session} ELSE {}
    /\ \A s \in LoggedSessions :
        /\ slogger.sessions[s].pid_samples = LoggedIn(s)
        /\ slogger.sessions[s].ended =>
            /\ slogger.files[s].exists
            /\ slogger.files[s].closed
            /\ slogger.files[s].samples = LoggedIn(s)
        /\ ~slogger.sessions[s].started => ~slogger.files[s].exists
    /\ slogger.last = "end_session" =>
        /\ ~SessionLogger_is_logging(slogger)
        /\ slogger.returned # 0 =>
               slogger.sessions[slogger.returned].ended /\ slogger.files[slogger.returned].exists

\* log_sample with no active session changes nothing, and end_session
\* with no active session returns None and changes nothing
NothingWithoutSession ==
    ~SessionLogger_is_logging(slogger) /\ slogger'.last \in {"log_sample", "end_session"} =>
        /\ slogger'.sessions = slogger.sessions
        /\ slogger'.files = slogger.files
        /\ slogger'.sample_count = slogger.sample_count
        /\ ~SessionLogger_is_logging(slogger')
        /\ slogger'.last = "end_session" => slogger'.returned = 0

\* C28: a SessionLogger has at most one active session; start_session
\* while a session is active first ends and saves that session;
\* log_sample with no active session changes nothing and end_session with
\* no active session returns None; every logged sample is recorded in
\* exactly the session that was active when it was logged, in logging
\* order, and is_logging is false after end_session.
OneActiveSession == [](SessionsHoldTheirSamples) /\ [][NothingWithoutSession]_vars

\* A sample was logged with no session active, one in the first session
\* and one in the second, which start_session opened while the first was
\* active, and the last call ended the second session
ReplacedSessionSaved ==
    /\ slogger.last = "end_session"
    /\ slogger.returned = 2
    /\ Len(slogger.history) = 3
    /\ slogger.history[1].session = 0
    /\ slogger.sessions[1].pid_samples = <<2>>
    /\ slogger.files[1].samples = <<2>>
    /\ slogger.sessions[2].pid_samples = <<3>>
    /\ slogger.files[2].samples = <<3>>

\* How often the code string is in the list of code strings
TimesListed(codes, code) == Cardinality({k \in 1..Len(codes) : codes[k] = code})

\* The finding at position r of the list is preceded by a 'Multiple ...
\* Codes' warning for the system of the code, which lists the code twice
\* or more
MultipleCodesBefore(findings, r, code) ==
    \E m \in 1..(r - 1) :
        /\ findings[m].title = "Multiple Codes"
        /\ findings[m].subject = <<DTCInfo_system([code |-> code])>>
        /\ findings[m].severity = "warning"
        /\ TimesListed(findings[m].related_dtcs, code) >= 2

\* C29: whenever FaultDetector emits the 'Recurring Faults' finding, it also
\* emits, earlier in the same findings list, a 'Multiple ... Codes' warning
\* for the system of each recurring code, because a code of both the stored
\* and the pending list is counted twice when codes are grouped by system.
RecurringComesWithMultipleCodes ==
    Returned("FaultDetector") =>
        LET findings == res["FaultDetector"].findings
        IN  \A r \in 1..Len(findings) :
                findings[r].title = "Recurring Faults" =>
                    /\ Recurring(session.dtc_result) # {}
                    /\ \A code \in Recurring(session.dtc_result) :
                           MultipleCodesBefore(findings, r, code)
                    /\ \A i \in 1..Len(findings[r].related_dtcs) :
                           MultipleCodesBefore(findings, r, findings[r].related_dtcs[i])

\* The read result holds one code, once in the stored and once in the
\* pending list, and FaultDetector returned both findings for it
OneCodeCountedTwice ==
    /\ Returned("FaultDetector")
    /\ Len(session.dtc_result.stored_codes) = 1
    /\ session.dtc_result.stored_codes = session.dtc_result.pending_codes
    /\ session.dtc_result.permanent_codes = <<>>
    /\ session.dtc_result.stored_codes[1].severity = "warning"
    /\ Len(res["FaultDetector"].findings) = 2
    /\ res["FaultDetector"].findings[1].title = "Multiple Codes"
    /\ res["FaultDetector"].findings[2].title = "Recurring Faults"

\* ------------------------------------------------------------------------
\* Trim-gap sessions: idle samples of which only the first few carry
\* LONG_FUEL_TRIM_1
\* ------------------------------------------------------------------------
GapCounts == 6..(6 + Extra)

GapSwings == {45, 120}

GapTrims == {-18, -16, -15, 15, 16, 18}

\* k idle samples, the first with of them with the trim
GapSamples(k, with, swing, trim) ==
    [i \in 1..k |->
        IF i <= with
        THEN << <<"RPM", IF i % 2 = 1 THEN 800 - swing ELSE 800 + swing>>,
                <<"LONG_FUEL_TRIM_1", trim>> >>
        ELSE << <<"RPM", IF i % 2 = 1 THEN 800 - swing ELSE 800 + swing>> >>]

GapSessions ==
    {DiagnosticSession(GapSamples(k, with, swing, trim), NoDTC) :
        k \in GapCounts, with \in 0..(6 + Extra), swing \in GapSwings, trim \in GapTrims}

GapInit ==
    /\ session \in GapSessions
    /\ Idle

\* The FaultDetector alone on the trim-gap sessions
GapSpec == GapInit /\ [][FaultDetectorAnalyze]_vars

LeanFindings == WithTitle(res["FaultDetector"].findings, "System Running Lean")

RichFindings == WithTitle(res["FaultDetector"].findings, "System Running Rich")

\* The finding of the fuel-system analysis comes with the symptom, and
\* with rough idle also with the diagnosis
FindingsComeWithSymptoms ==
    /\ LeanFindings # <<>> =>
        /\ lean_running(session)
        /\ rough_idle(session) => VacuumLeakFindings # <<>>
    /\ RichFindings # <<>> =>
        /\ rich_running(session)
        /\ rough_idle(session) => InjectorFindings # <<>>

EverySampleHasLongTrim ==
    \A i \in 1..Len(session.pid_samples) : Has(session.pid_samples[i], "LONG_FUEL_TRIM_1")

\* C30 as stated: within one FaultDetector.analyze call, whenever 'System
\* Running Lean' is emitted the lean_running symptom is set and whenever
\* 'System Running Rich' is emitted the rich_running symptom is set, so a
\* session with the finding and rough idle also gets 'Vacuum Leak Likely'
\* (resp. 'Fuel Injector Issue Likely').
LeanRichDeterminationsAgree == Returned("FaultDetector") => FindingsComeWithSymptoms

\* C30: the same for the sessions in which every sample carries
\* LONG_FUEL_TRIM_1; the symptom takes a sample without the reading as 0,
\* the fuel-system analysis leaves it out.
LeanRichAgreeWithTrimInEverySample ==
    Returned("FaultDetector") /\ EverySampleHasLongTrim => FindingsComeWithSymptoms

\* Every sample carries the trim, the engine idles roughly, and the rich
\* finding came with the injector diagnosis
RichWithInjectorDiagnosis ==
    /\ Returned("FaultDetector")
    /\ EverySampleHasLongTrim
    /\ rough_idle(session)
    /\ RichFindings # <<>>
    /\ InjectorFindings # <<>>

\* The lean finding without the vacuum-leak diagnosis although the engine
\* idles roughly: half of the samples lack the trim
LeanWithoutVacuumLeak ==
    /\ Returned("FaultDetector")
    /\ rough_idle(session)
    /\ LeanFindings # <<>>
    /\ VacuumLeakFindings = <<>>

====
